---- MODULE Spec2Model ----
(***************************************************************************)
(* Tenant-membership state machine of the react-store backend:             *)
(* TenantUserRepository (create, destroy, updateRoles, acceptInvitation,   *)
(* findByInvitationToken) and the status rule selectStatus, over the       *)
(* membership lists embedded in the user documents; the session manager of *)
(* MongooseRepository with the services that open sessions; the two-way    *)
(* relation synchronisation of MongooseRepository; the lookups of          *)
(* UserRepository with the tenant-scoped view; TenantRepository; and the   *)
(* repository calls taken step by step where requests run concurrently     *)
(* (findOrCreateDefault, tenant create and update, updateRoles,            *)
(* acceptInvitation).                                                      *)
(***************************************************************************)
EXTENDS Naturals, Sequences, FiniteSets

(* ------------------------------ universe ------------------------------ *)

Users == {"u1", "u2"}
Tenants == {"t1"}
Roles == {"admin", "custom"}

\* Number of repository calls in one behaviour.
MaxCalls == 3
\* Longest role list handed to selectStatus on its own.
MaxSelLen == 4

\* Most writes one repository call issues.
MaxWrites == 2
\* Most ids passed to destroyAll.
MaxIds == 2
\* Most fields in the key pattern of a unique index.
MaxKeys == 2
\* Most memberships in the list of a user document that is looked up.
MaxMemberships == 2

\* invitationToken: null (also the absent field of a pushed membership).
NoToken == 0

\* Every token a behaviour can issue, and so every token worth presenting.
Tokens == 1..MaxCalls

Statuses == {"active", "invited", "empty-permissions"}
\* enum: ['active', 'invited'] of the status path of TenantUserSchema.
SchemaStatuses == {"active", "invited"}
Modes == {"add", "removeListed", "replace"}

RECURSIVE SeqsUpTo(_, _)
SeqsUpTo(S, n) ==
  IF n = 0 THEN {<<>>}
  ELSE LET shorter == SeqsUpTo(S, n - 1)
       IN  shorter \cup {Append(s, x) : s \in {t \in shorter : Len(t) = n - 1}, x \in S}

\* A roles argument: an array, or absent (undefined / null).
Absent == [absent |-> TRUE, list |-> <<>>]
Given(l) == [absent |-> FALSE, list |-> l]
\* The role lists passed to create and updateRoles: empty, single, repeated.
RoleLists == {<<>>, <<"admin">>, <<"custom">>, <<"admin", "admin">>}
RoleArgs == {Absent} \cup {Given(l) : l \in RoleLists}
SelRoleArgs == {Absent} \cup {Given(l) : l \in SeqsUpTo(Roles, MaxSelLen)}

(* ------------------------------- helpers ------------------------------ *)

\* roles || []
OrEmpty(r) == IF r.absent THEN <<>> ELSE r.list

\* Array.prototype.includes
Includes(s, x) == \E i \in 1..Len(s) : s[i] = x

SeqToSet(s) == {s[i] : i \in 1..Len(s)}

\* Dedup without the Set: repeated elements are kept.
Dedup_none(s) == s

\* [...new Set(s)]: the first occurrence of each element, in order.
RECURSIVE Dedup(_)
Dedup(s) ==
  IF s = <<>> THEN <<>>
  ELSE LET front == Dedup(SubSeq(s, 1, Len(s) - 1))
           x == s[Len(s)]
       IN  IF Includes(front, x) THEN front ELSE Append(front, x)

\* existingRoles.filter((existingRole) => !roles.includes(existingRole))
RECURSIVE Without(_, _)
Without(s, r) ==
  IF s = <<>> THEN <<>>
  ELSE LET rest == Without(Tail(s), r)
       IN  IF Includes(r, Head(s)) THEN rest ELSE <<Head(s)>> \o rest

\* selectStatus without the invited-is-sticky rule.
selectStatus_skipSticky(oldStatus, newRoles) ==
  IF Len(OrEmpty(newRoles)) = 0 THEN "empty-permissions" ELSE "active"

\* selectStatus without the default for an absent role list.
selectStatus_noDefault(oldStatus, newRoles) ==
  IF oldStatus = "invited" THEN oldStatus
  ELSE IF ~newRoles.absent /\ Len(newRoles.list) = 0 THEN "empty-permissions"
  ELSE "active"

selectStatus(oldStatus, newRoles) ==
  LET roles == OrEmpty(newRoles)
  IN  IF oldStatus = "invited" THEN oldStatus
      ELSE IF Len(roles) = 0 THEN "empty-permissions"
      ELSE "active"

Membership(t, s, r, k) ==
  [tenant |-> t, status |-> s, roles |-> r, invitationToken |-> k]

\* user.tenants.find(...): index of the first membership for the tenant, 0 if none.
FindIndex(list, t) ==
  IF \E i \in 1..Len(list) : list[i].tenant = t
  THEN CHOOSE i \in 1..Len(list) :
         /\ list[i].tenant = t
         /\ \A j \in 1..(i - 1) : list[j].tenant # t
  ELSE 0

\* A $pull whose filter matches nothing.
Pull_keepAll(list, t) == list

\* A $pull whose filter matches every membership.
Pull_everything(list, t) == <<>>

\* $pull: { tenants: { tenant: tenantId } }
RECURSIVE Pull(_, _)
Pull(list, t) ==
  IF list = <<>> THEN <<>>
  ELSE IF Head(list).tenant = t THEN Pull(Tail(list), t)
  ELSE <<Head(list)>> \o Pull(Tail(list), t)

\* $set: { 'tenants.$.roles', 'tenants.$.status' } on the first match of
\* { 'tenants.tenant': tenantId }.
SetFirst(list, t, roles, status) ==
  LET i == FindIndex(list, t)
  IN  IF i = 0 THEN list
      ELSE [list EXCEPT ![i] = [@ EXCEPT !.roles = roles, !.status = status]]

\* An invited membership that carries no token.
InvitedMembership_noToken(t, token) ==
  Membership(t, selectStatus("invited", Given(<<>>)), <<>>, NoToken)

\* updateRoles, no membership found: the invited membership it pushes.
InvitedMembership(t, token) ==
  Membership(t, selectStatus("invited", Given(<<>>)), <<>>, token)

\* An accepted membership that keeps the invitation's token.
AcceptedMembership_keepsToken(invitation, hasExisting, existingRoles) ==
  Membership(invitation.tenant,
             selectStatus("active", Given(invitation.roles)),
             IF hasExisting THEN Dedup(existingRoles \o invitation.roles)
             ELSE invitation.roles,
             invitation.invitationToken)

\* acceptInvitation: the membership it pushes to the current user.  The status
\* is computed from the invitation's roles, before the roles are merged.
AcceptedMembership(invitation, hasExisting, existingRoles) ==
  Membership(invitation.tenant,
             selectStatus("active", Given(invitation.roles)),
             IF hasExisting THEN Dedup(existingRoles \o invitation.roles)
             ELSE invitation.roles,
             NoToken)

\* The membership as it was read, without the edit of the call.
Returned_stale(tenantUser, newRoles, status) == tenantUser

\* updateRoles: the value it returns, tenantUser with the new roles and status
\* assigned (the membership alone; isCreation is not part of it).
Returned(tenantUser, newRoles, status) ==
  [tenantUser EXCEPT !.roles = newRoles, !.status = status]

\* A call that threw returns nothing.
Nothing == [nothing |-> TRUE]

(* -------------------------------- state ------------------------------- *)

VARIABLES
  flag,       \* getConfig().DATABASE_TRANSACTIONS === 'true'
  conn,       \* the session of the connection: its transaction and pending writes
  store,      \* the writes the store holds (committed, or issued without a session)
  svc,        \* the running service operation: its position and locals
  trace,      \* what the running service operation has done so far, in order
  mgr         \* the last direct call of the session manager, with the state before it

VARIABLES
  users,      \* user id -> the user's embedded membership list (user.tenants)
  nextToken,  \* number of invitation tokens generated so far
  last,       \* the last repository call: operation, arguments, outcome
  prev,       \* users as they were when the last call started
  contract,   \* TRUE while create was never called for an existing membership
  accepted,   \* <<token, user>> of every acceptInvitation that completed
  calls,      \* number of repository calls made so far
  sel         \* a direct application of selectStatus: arguments and result

VARIABLES
  links,      \* source id -> the target ids in the source record's field
  backRefs,   \* target id -> the source ids in its back-reference array
  backRef,    \* target id -> the source id in its single back-reference, or null
  backArr,    \* target id -> its back-reference array, in stored order
  relLast,    \* the last relationship sync: kind and source record
  relPrev     \* links, backRefs and backRef as they were when it started

VARIABLES
  accounts,   \* user id -> the user document: id, email, profile, memberships
  view        \* the last lookup of user records: the query and its result

VARIABLES
  tenantDb,   \* tenant id -> the tenant record, or that there is none
  records,    \* <<entity, tenant id>> -> the number of its records of that tenant
  generated,  \* number of URLs generated so far
  tlast,      \* the last call of the tenant repository, with its outcome
  tprev       \* tenantDb and records as they were when it started

VARIABLES
  procs,      \* concurrent call -> its position and locals
  hist        \* the writes the concurrent calls have applied, in order

memVars == <<users, nextToken, last, prev, contract, accepted, calls, sel>>
txVars == <<flag, conn, store, svc, trace, mgr>>
relVars == <<links, backRefs, backRef, backArr, relLast, relPrev>>
viewVars == <<accounts, view>>
tenantVars == <<tenantDb, records, generated, tlast, tprev>>
raceVars == <<procs, hist>>
vars == <<memVars, txVars, relVars, viewVars, tenantVars, raceVars>>

NoCall ==
  [op |-> "none", user |-> "u1", tenant |-> "t1", roles |-> Absent,
   mode |-> "replace", token |-> NoToken, outcome |-> "ok", isCreation |-> FALSE,
   repeat |-> FALSE, returned |-> Nothing, audit |-> <<>>]

NoSel == [oldStatus |-> "active", roles |-> Absent, result |-> "none"]

\* No session was started on the connection.
NoConn == [state |-> "none", pending |-> {}]

\* The code of a duplicate-key error of the store, of another store error
\* (a write conflict), and of an error that carries no code.
DuplicateKey == 11000
WriteConflict == 112
NoCode == 0

\* The field that scopes a record to its tenant, and the unique fields.
TenantField == "tenant"
UniqueFields == {"importHash", "sku"}

\* What the template string makes of undefined.
Undefined == "undefined"

NoError == [type |-> "none", code |-> NoCode, keyPattern |-> <<>>, key |-> <<>>]

\* An error of the store, with the key pattern of the index it violated.
StorageError(code, keyPattern) ==
  [type |-> "MongoError", code |-> code, keyPattern |-> keyPattern, key |-> <<>>]

\* An error that is not the store's.
PlainError == [type |-> "Error", code |-> NoCode, keyPattern |-> <<>>, key |-> <<>>]

\* session.commitTransaction() on an absent session.
ThrownTypeError ==
  [type |-> "TypeError", code |-> NoCode, keyPattern |-> <<>>, key |-> <<>>]

\* new Error400(language, messageKey)
Error400(key) == [type |-> "Error400", code |-> 400, keyPattern |-> <<>>, key |-> key]

\* The key patterns of the unique indexes: fields in index order, none twice,
\* one of them at least a unique field of the entity.
KeyPatterns ==
  {kp \in SeqsUpTo(UniqueFields \cup {TenantField}, MaxKeys) :
     /\ \A i, j \in 1..Len(kp) : kp[i] = kp[j] => i = j
     /\ \E i \in 1..Len(kp) : kp[i] \in UniqueFields}

\* The errors a repository call can reject with.
RepoErrors ==
  {StorageError(DuplicateKey, kp) : kp \in KeyPatterns}
    \cup {StorageError(WriteConflict, <<>>), PlainError}

Idle ==
  [op |-> "idle", entity |-> "none", pc |-> "idle", session |-> FALSE,
   left |-> 0, writes |-> 0, error |-> NoError, cause |-> NoError]

NoMgr ==
  [fn |-> "none", flag |-> FALSE, arg |-> FALSE, outcome |-> "ok", ret |-> FALSE,
   conn |-> NoConn, store |-> {}]

\* The records of a two-way relation: sources hold target ids in a field,
\* targets hold the back-reference.
RelSources == {"s1", "s2"}
RelTargets == {"a", "b", "c"}
Null == "null"

NoSync == [op |-> "none", id |-> "s1", field |-> {}, ref |-> Null]

\* No source references a target, and no target a source.
InitRel ==
  /\ links = [s \in RelSources |-> {}]
  /\ backRefs = [t \in RelTargets |-> {}]
  /\ backRef = [t \in RelTargets |-> Null]
  /\ backArr = [t \in RelTargets |-> <<>>]
  /\ relLast = NoSync
  /\ relPrev = [links |-> links, backRefs |-> backRefs, backRef |-> backRef,
                backArr |-> backArr]

\* The membership lists before any call.
InitMem ==
  /\ users = [u \in Users |-> <<>>]
  /\ nextToken = 0
  /\ last = NoCall
  /\ prev = users
  /\ contract = TRUE
  /\ accepted = {}
  /\ calls = 0
  /\ sel = NoSel

\* The connection before any session, with transactions disabled.
InitTx ==
  /\ flag = FALSE
  /\ conn = NoConn
  /\ store = {}
  /\ svc = Idle
  /\ trace = <<>>
  /\ mgr = NoMgr
  /\ InitRel

\* The tenant the lookups are made from, and a tenant of its own.
ViewTenants == {"t1", "t2"}
CurrentTenant == "t1"

\* Ids a lookup can ask for: the users, and an id no user has.
UnknownId == "u0"
UserIds == Users \cup {UnknownId}

EmailOf(u) == IF u = "u1" THEN "u1@x" ELSE IF u = "u2" THEN "u2@x" ELSE "u0@x"
Names == {"Ann", "Bob"}

\* A membership as the lookups read it: populated tenant, status, roles.
ViewMemberships ==
  {[tenant |-> t, status |-> sr[1], roles |-> sr[2]] :
     t \in ViewTenants,
     sr \in {<<"active", <<"admin">>>>, <<"invited", <<"admin">>>>,
             <<"empty-permissions", <<>>>>, <<"empty-permissions", <<"admin">>>>}}

UserDocs(u, n) ==
  {[id |-> u, email |-> EmailOf(u), fullName |-> name, tenants |-> list] :
     name \in Names, list \in SeqsUpTo(ViewMemberships, n)}

\* The query of a lookup; "any" where the query does not constrain.
NoQuery ==
  [op |-> "none", id |-> UnknownId, email |-> "any", tenant |-> CurrentTenant,
   bypass |-> FALSE, fullName |-> "any", role |-> "any", status |-> "any",
   search |-> "any"]

NoView == [q |-> NoQuery, outcome |-> "ok", rows |-> <<>>, count |-> 0]

InitView ==
  /\ accounts = [u \in Users |->
                   [id |-> u, email |-> EmailOf(u), fullName |-> "Ann", tenants |-> <<>>]]
  /\ view = NoView

\* The ids tenants can have, and the tenant-scoped collections.
TenantIds == {"t1", "t2", "t3"}
TenantEntities == {"customer", "product", "order", "settings"}

\* const forbiddenTenantUrls = ['www']
forbiddenTenantUrls == {"www"}

\* The URLs a caller supplies; NoUrl when data.url is not given.
NoUrl == "none"
GivenUrls == {"www", "a", "c"}

NoTenant == [exists |-> FALSE, url |-> Null]

NoTenantCall ==
  [op |-> "none", id |-> "t1", url |-> NoUrl, user |-> "u1", outcome |-> "ok",
   audit |-> <<>>]

\* No tenant and no tenant-scoped record.
InitTenant ==
  /\ tenantDb = [t \in TenantIds |-> NoTenant]
  /\ records = [k \in TenantEntities \X TenantIds |-> 0]
  /\ generated = 0
  /\ tlast = NoTenantCall
  /\ tprev = [tenantDb |-> tenantDb, records |-> records]

\* The calls that run concurrently.
RaceProcs == {1, 2}

\* A call that has not started.
NoProc == [op |-> "none", pc |-> "idle"]

\* No concurrent call is running.
InitRace ==
  /\ procs = [p \in RaceProcs |-> NoProc]
  /\ hist = <<>>

Init == InitMem /\ InitTx /\ InitView /\ InitTenant /\ InitRace

(* ------------------------------ operations ---------------------------- *)

\* One more call, while the behaviour has calls left.
Tick == calls < MaxCalls /\ calls' = calls + 1 /\ UNCHANGED <<txVars, relVars, viewVars, tenantVars, raceVars>>

\* TenantUserRepository.findByInvitationToken: the users holding the token.
Holders(db, k) ==
  {u \in Users : \E i \in 1..Len(db[u]) : db[u][i].invitationToken = k}

\* A lookup in the user's memberships that ignores the token.
TokenMembership_first(db, u, k) == db[u][1]

\* The membership of user u that carries token k.
TokenMembership(db, u, k) ==
  db[u][CHOOSE i \in 1..Len(db[u]) :
          /\ db[u][i].invitationToken = k
          /\ \A j \in 1..(i - 1) : db[u][j].invitationToken # k]

\* The lookup found no user: it returns null.
NotFound == [found |-> FALSE]

\* TenantUserRepository.findByInvitationToken: what it can return, the
\* membership carrying the token together with its user, or null.
findByInvitationToken(db, k) ==
  IF Holders(db, k) = {} THEN {NotFound}
  ELSE {[found |-> TRUE, membership |-> TokenMembership(db, h, k), user |-> h] :
          h \in Holders(db, k)}

FindByInvitationToken(k) ==
  /\ Tick
  /\ \E result \in findByInvitationToken(users, k) :
       last' = [NoCall EXCEPT !.op = "findByInvitationToken", !.token = k,
                              !.returned = result]
  /\ prev' = users
  /\ UNCHANGED <<users, nextToken, contract, accepted, sel>>

\* A create that sets the membership list instead of pushing to it.
Create_overwrite(u, t, r) ==
  /\ Tick
  /\ LET roles == OrEmpty(r)
         status == selectStatus("active", Given(roles))
     IN  users' = [users EXCEPT ![u] = <<Membership(t, status, roles, NoToken)>>]
  /\ contract' = (contract /\ FindIndex(users[u], t) = 0)
  /\ prev' = users
  /\ last' = [NoCall EXCEPT !.op = "create", !.user = u, !.tenant = t, !.roles = r,
                            !.audit = <<"create">>]
  /\ UNCHANGED <<nextToken, accepted, sel>>

Create(u, t, r) ==
  /\ Tick
  /\ LET roles == OrEmpty(r)
         status == selectStatus("active", Given(roles))
     IN  users' = [users EXCEPT ![u] = Append(@, Membership(t, status, roles, NoToken))]
  /\ contract' = (contract /\ FindIndex(users[u], t) = 0)
  /\ prev' = users
  /\ last' = [NoCall EXCEPT !.op = "create", !.user = u, !.tenant = t, !.roles = r,
                            !.audit = <<"create">>]
  /\ UNCHANGED <<nextToken, accepted, sel>>

Destroy(t, u) ==
  /\ Tick
  /\ users' = [users EXCEPT ![u] = Pull(@, t)]
  /\ prev' = users
  /\ last' = [NoCall EXCEPT !.op = "destroy", !.user = u, !.tenant = t,
                            !.audit = <<"delete">>]
  /\ UNCHANGED <<nextToken, contract, accepted, sel>>

UpdateRoles(t, u, r, mode) ==
  LET found == FindIndex(users[u], t)
      isCreation == (found = 0)
      token == nextToken + 1
      invited == InvitedMembership(t, token)
      pushed == IF isCreation THEN [users EXCEPT ![u] = Append(@, invited)] ELSE users
      tenantUser == IF isCreation THEN invited ELSE users[u][found]
      existingRoles == tenantUser.roles
      throws == r.absent /\ mode \in {"add", "removeListed"}
      newRoles == IF mode = "add" THEN Dedup(existingRoles \o r.list)
                  ELSE IF mode = "removeListed" THEN Without(existingRoles, r.list)
                  ELSE OrEmpty(r)
      status == selectStatus(tenantUser.status, Given(newRoles))
  IN  /\ Tick
      /\ users' = IF throws THEN pushed
                  ELSE [pushed EXCEPT ![u] = SetFirst(@, t, newRoles, status)]
      /\ nextToken' = IF isCreation THEN token ELSE nextToken
      /\ prev' = users
      /\ last' = [NoCall EXCEPT !.op = "updateRoles", !.user = u, !.tenant = t,
                                !.roles = r, !.mode = mode,
                                !.outcome = IF throws THEN "error" ELSE "ok",
                                !.isCreation = isCreation,
                                !.returned = IF throws THEN Nothing
                                             ELSE Returned(tenantUser, newRoles, status),
                                !.audit = IF throws THEN <<>>
                                          ELSE IF isCreation THEN <<"create">>
                                          ELSE <<"update">>]
      /\ UNCHANGED <<contract, accepted, sel>>

\* An acceptInvitation that guards the missing invitation by treating the
\* current user's memberships as the invitation's: it pulls them.
AcceptInvitation_pullsCurrent(k, cu) ==
  /\ Tick
  /\ prev' = users
  /\ IF Holders(users, k) = {}
     THEN /\ users' = [users EXCEPT ![cu] = <<>>]
          /\ last' = [NoCall EXCEPT !.op = "acceptInvitation", !.user = cu,
                                    !.token = k, !.outcome = "error",
                                    !.repeat = (<<k, cu>> \in accepted),
                                    !.audit = <<"delete">>]
          /\ UNCHANGED <<nextToken, contract, accepted, sel>>
     ELSE \E h \in Holders(users, k) :
            LET invitation == TokenMembership(users, h, k)
                t == invitation.tenant
                found == FindIndex(users[cu], t)
                existingRoles == IF found = 0 THEN <<>> ELSE users[cu][found].roles
                destroyed == [users EXCEPT ![h] = Pull(@, t)]
                tenantUser == AcceptedMembership(invitation, found # 0, existingRoles)
            IN  /\ users' = [destroyed EXCEPT ![cu] = Append(@, tenantUser)]
                /\ last' = [NoCall EXCEPT !.op = "acceptInvitation", !.user = cu,
                                          !.tenant = t, !.token = k,
                                          !.repeat = (<<k, cu>> \in accepted),
                                          !.audit = <<"delete", "update">>]
                /\ accepted' = accepted \cup {<<k, cu>>}
                /\ UNCHANGED <<nextToken, contract, sel>>

AcceptInvitation(k, cu) ==
  /\ Tick
  /\ prev' = users
  /\ IF Holders(users, k) = {}
     THEN \* invitationTenantUser is null: reading .tenant throws, nothing written
          /\ last' = [NoCall EXCEPT !.op = "acceptInvitation", !.user = cu,
                                    !.token = k, !.outcome = "error",
                                    !.repeat = (<<k, cu>> \in accepted)]
          /\ UNCHANGED <<users, nextToken, contract, accepted, sel>>
     ELSE \E h \in Holders(users, k) :
            LET invitation == TokenMembership(users, h, k)
                t == invitation.tenant
                found == FindIndex(users[cu], t)
                existingRoles == IF found = 0 THEN <<>> ELSE users[cu][found].roles
                destroyed == [users EXCEPT ![h] = Pull(@, t)]
                tenantUser == AcceptedMembership(invitation, found # 0, existingRoles)
            IN  /\ users' = [destroyed EXCEPT ![cu] = Append(@, tenantUser)]
                /\ last' = [NoCall EXCEPT !.op = "acceptInvitation", !.user = cu,
                                          !.tenant = t, !.token = k,
                                          !.repeat = (<<k, cu>> \in accepted),
                                          !.audit = <<"delete", "update">>]
                /\ accepted' = accepted \cup {<<k, cu>>}
                /\ UNCHANGED <<nextToken, contract, sel>>

Next ==
  \/ \E u \in Users, t \in Tenants, r \in RoleArgs : Create(u, t, r)
  \/ \E u \in Users, t \in Tenants : Destroy(t, u)
  \/ \E u \in Users, t \in Tenants, r \in RoleArgs, m \in Modes : UpdateRoles(t, u, r, m)
  \/ \E cu \in Users, k \in Tokens : AcceptInvitation(k, cu)

Spec == Init /\ [][Next]_vars

(* ------------- the same operations over two tenants, and the lookup --- *)

FrameTenants == {"t1", "t2"}
FrameRoleArgs == {Absent, Given(<<>>), Given(<<"admin">>)}

NextFrame ==
  \/ \E u \in Users, t \in FrameTenants, r \in FrameRoleArgs : Create(u, t, r)
  \/ \E u \in Users, t \in FrameTenants : Destroy(t, u)
  \/ \E u \in Users, t \in FrameTenants, r \in FrameRoleArgs, m \in Modes :
       UpdateRoles(t, u, r, m)
  \/ \E cu \in Users, k \in Tokens : AcceptInvitation(k, cu)
  \/ \E k \in Tokens : FindByInvitationToken(k)

SpecFrame == Init /\ [][NextFrame]_vars

(* ------------------- selectStatus applied on its own ------------------ *)

InitSel ==
  /\ users = [u \in Users |-> <<>>]
  /\ nextToken = 0
  /\ last = NoCall
  /\ prev = users
  /\ contract = TRUE
  /\ accepted = {}
  /\ calls = 0
  /\ sel \in {[oldStatus |-> s, roles |-> r, result |-> "none"] :
               s \in Statuses, r \in SelRoleArgs}
  /\ InitTx
  /\ InitView
  /\ InitTenant
  /\ InitRace

ApplySelectStatus ==
  /\ sel.result = "none"
  /\ sel' = [sel EXCEPT !.result = selectStatus(sel.oldStatus, sel.roles)]
  /\ UNCHANGED <<users, nextToken, last, prev, contract, accepted, calls>>
  /\ UNCHANGED <<txVars, relVars, viewVars, tenantVars, raceVars>>

NextSel == ApplySelectStatus

SpecSel == InitSel /\ [][NextSel]_vars

(* --------------------------- session manager -------------------------- *)

\* A createSession that starts a session whatever the configuration.
createSession_always(f, c) ==
  [ret |-> TRUE, conn |-> [state |-> "active", pending |-> {}]]

\* MongooseRepository.createSession: nothing unless transactions are enabled,
\* else a session with a transaction started.
createSession(f, c) ==
  IF ~f THEN [ret |-> FALSE, conn |-> c]
  ELSE [ret |-> TRUE, conn |-> [state |-> "active", pending |-> {}]]

\* MongooseRepository.commitTransaction: decided by the configuration, not by
\* the session; session.commitTransaction() on an absent session throws.
commitTransaction(f, session, c, st) ==
  IF ~f THEN [outcome |-> "ok", conn |-> c, store |-> st]
  ELSE IF ~session THEN [outcome |-> "TypeError", conn |-> c, store |-> st]
  ELSE [outcome |-> "ok", conn |-> [state |-> "committed", pending |-> {}],
        store |-> st \cup c.pending]

\* MongooseRepository.abortTransaction, decided the same way.
abortTransaction(f, session, c, st) ==
  IF ~f THEN [outcome |-> "ok", conn |-> c, store |-> st]
  ELSE IF ~session THEN [outcome |-> "TypeError", conn |-> c, store |-> st]
  ELSE [outcome |-> "ok", conn |-> [state |-> "aborted", pending |-> {}],
        store |-> st]

\* MongooseRepository.wrapWithSessionIfExists around a write: the write joins
\* the session of the options when there is one, else it goes to the store.
wrapWithSessionIfExists(w, session, c, st) ==
  IF session THEN [conn |-> [c EXCEPT !.pending = @ \cup {w}], store |-> st]
  ELSE [conn |-> c, store |-> st \cup {w}]

(* --------------- the session manager called on its own ---------------- *)

\* The configuration is read at each call and may have changed in between.
Reconfigure ==
  /\ flag' = ~flag
  /\ mgr' = [NoMgr EXCEPT !.fn = "reconfigure"]
  /\ UNCHANGED <<conn, store, svc, trace>>
  /\ UNCHANGED <<memVars, relVars, viewVars, tenantVars, raceVars>>

CallCreateSession ==
  /\ conn.state # "active"
  /\ LET r == createSession(flag, conn)
     IN  /\ conn' = r.conn
         /\ svc' = [svc EXCEPT !.session = r.ret]
         /\ mgr' = [fn |-> "createSession", flag |-> flag, arg |-> FALSE,
                    outcome |-> "ok", ret |-> r.ret, conn |-> conn, store |-> store]
  /\ UNCHANGED <<flag, store, trace>>
  /\ UNCHANGED <<memVars, relVars, viewVars, tenantVars, raceVars>>

\* A write of the caller, with the session it holds or without one.
CallWrite(withSession) ==
  /\ svc.writes < MaxWrites
  /\ withSession => (svc.session /\ conn.state = "active")
  /\ LET r == wrapWithSessionIfExists(svc.writes + 1, withSession, conn, store)
     IN  /\ conn' = r.conn
         /\ store' = r.store
  /\ svc' = [svc EXCEPT !.writes = @ + 1]
  /\ mgr' = [NoMgr EXCEPT !.fn = "write"]
  /\ UNCHANGED <<flag, trace>>
  /\ UNCHANGED <<memVars, relVars, viewVars, tenantVars, raceVars>>

\* commitTransaction(session) with the session held, or with none.
CallCommit(arg) ==
  /\ arg => (svc.session /\ conn.state = "active")
  /\ LET r == commitTransaction(flag, arg, conn, store)
     IN  /\ conn' = r.conn
         /\ store' = r.store
         /\ mgr' = [fn |-> "commitTransaction", flag |-> flag, arg |-> arg,
                    outcome |-> r.outcome, ret |-> FALSE, conn |-> conn,
                    store |-> store]
  /\ UNCHANGED <<flag, svc, trace>>
  /\ UNCHANGED <<memVars, relVars, viewVars, tenantVars, raceVars>>

\* abortTransaction(session) with the session held, or with none.
CallAbort(arg) ==
  /\ arg => (svc.session /\ conn.state = "active")
  /\ LET r == abortTransaction(flag, arg, conn, store)
     IN  /\ conn' = r.conn
         /\ store' = r.store
         /\ mgr' = [fn |-> "abortTransaction", flag |-> flag, arg |-> arg,
                    outcome |-> r.outcome, ret |-> FALSE, conn |-> conn,
                    store |-> store]
  /\ UNCHANGED <<flag, svc, trace>>
  /\ UNCHANGED <<memVars, relVars, viewVars, tenantVars, raceVars>>

InitSession ==
  /\ InitMem
  /\ flag \in BOOLEAN
  /\ conn = NoConn
  /\ store = {}
  /\ svc = Idle
  /\ trace = <<>>
  /\ mgr = NoMgr
  /\ InitRel
  /\ InitView
  /\ InitTenant
  /\ InitRace

NextSession ==
  \/ Reconfigure
  \/ CallCreateSession
  \/ \E b \in BOOLEAN : CallWrite(b)
  \/ \E b \in BOOLEAN : CallCommit(b)
  \/ \E b \in BOOLEAN : CallAbort(b)

SpecSession == InitSession /\ [][NextSession]_vars

(* --------------------------- service operations ----------------------- *)

\* The services that open a session: ProductService, CustomerService and
\* OrderService (create, update, destroyAll) and SettingsService (save).
Entities == {"product", "customer", "order", "settings"}
ServiceOps == {"create", "update", "destroyAll", "save"}

\* The operations each service has.
OpsOf(entity) ==
  IF entity = "settings" THEN {"save"} ELSE {"create", "update", "destroyAll"}

\* The options the service hands to its repository carry the session.
PassesSession(entity) == entity # "settings"

\* The repository call of the service is inside a try/catch.
HasCatch(entity) == entity # "settings"

\* The repository calls an operation makes: one per id for destroyAll.
RepoCalls(op, n) == IF op = "destroyAll" THEN n ELSE 1

\* Object.keys(error.keyPattern).filter((key) => key !== 'tenant')
RECURSIVE OtherKeys(_)
OtherKeys(kp) ==
  IF kp = <<>> THEN <<>>
  ELSE IF Head(kp) = TenantField THEN OtherKeys(Tail(kp))
  ELSE <<Head(kp)>> \o OtherKeys(Tail(kp))

\* [0] of an array.
FirstOf(arr) == IF arr = <<>> THEN Undefined ELSE arr[1]

\* A handler that translates nothing.
handleUniqueFieldError_raw(error, entityName) == error

\* A handler that translates every error.
handleUniqueFieldError_any(error, entityName) ==
  Error400(<<"entities", entityName, "errors", "unique",
             FirstOf(OtherKeys(error.keyPattern))>>)

\* The error that leaves the handler: the Error400 it throws, or the error
\* it was given when it returns.
handleUniqueFieldError(error, entityName) ==
  IF error.code # DuplicateKey THEN error
  ELSE Error400(<<"entities", entityName, "errors", "unique",
                  FirstOf(OtherKeys(error.keyPattern))>>)

\* create and update pass the error through the handler; destroyAll does not.
Rethrown(op, entity, error) ==
  IF op \in {"create", "update"} THEN handleUniqueFieldError(error, entity)
  ELSE error

Finished == {"idle", "returned", "raised"}

\* A request enters a service operation; n is the number of ids of destroyAll.
\* conn and store hold the session and the writes of this operation only.
Start(entity, op, n) ==
  /\ svc.pc \in Finished
  /\ op \in OpsOf(entity)
  /\ op # "destroyAll" => n = 1
  /\ svc' = [op |-> op, entity |-> entity, pc |-> "open", session |-> FALSE,
             left |-> RepoCalls(op, n), writes |-> 0, error |-> NoError,
             cause |-> NoError]
  /\ trace' = <<>>
  /\ conn' = NoConn
  /\ store' = {}
  /\ UNCHANGED <<flag, mgr>>
  /\ UNCHANGED <<memVars, relVars, viewVars, tenantVars, raceVars>>

\* const session = await MongooseRepository.createSession(database)
OpenSession ==
  /\ svc.pc = "open"
  /\ LET r == createSession(flag, conn)
     IN  /\ conn' = r.conn
         /\ svc' = [svc EXCEPT !.session = r.ret,
                               !.pc = IF svc.left = 0 THEN "commit" ELSE "repo"]
  /\ trace' = Append(trace, "createSession")
  /\ UNCHANGED <<flag, store, mgr>>
  /\ UNCHANGED <<memVars, relVars, viewVars, tenantVars, raceVars>>

\* One write of the running repository call, wrapped with the session of the
\* options the service passed.
RepoWrite ==
  /\ svc.pc = "repo"
  /\ svc.writes < MaxWrites
  /\ LET inSession == PassesSession(svc.entity) /\ svc.session
         r == wrapWithSessionIfExists(svc.writes + 1, inSession, conn, store)
     IN  /\ conn' = r.conn
         /\ store' = r.store
         /\ trace' = Append(trace, IF inSession THEN "write@session"
                                                ELSE "write@direct")
  /\ svc' = [svc EXCEPT !.writes = @ + 1]
  /\ UNCHANGED <<flag, mgr>>
  /\ UNCHANGED <<memVars, relVars, viewVars, tenantVars, raceVars>>

\* The running repository call returns.
RepoReturn ==
  /\ svc.pc = "repo"
  /\ svc' = [svc EXCEPT !.left = @ - 1,
                        !.pc = IF svc.left = 1 THEN "commit" ELSE "repo"]
  /\ UNCHANGED <<flag, conn, store, trace, mgr>>
  /\ UNCHANGED <<memVars, relVars, viewVars, tenantVars, raceVars>>

\* The running repository call rejects: a duplicate key, or anything else.
RepoFail(kind) ==
  /\ svc.pc = "repo"
  /\ IF HasCatch(svc.entity)
     THEN /\ svc' = [svc EXCEPT !.pc = "catch", !.error = kind, !.cause = kind]
          /\ trace' = Append(trace, "fail")
     ELSE /\ svc' = [svc EXCEPT !.pc = "raised", !.error = kind, !.cause = kind]
          /\ trace' = trace \o <<"fail", "throw">>
  /\ UNCHANGED <<flag, conn, store, mgr>>
  /\ UNCHANGED <<memVars, relVars, viewVars, tenantVars, raceVars>>

\* await MongooseRepository.commitTransaction(session); return
Commit ==
  /\ svc.pc = "commit"
  /\ LET r == commitTransaction(flag, svc.session, conn, store)
     IN  /\ conn' = r.conn
         /\ store' = r.store
         /\ IF r.outcome = "ok"
            THEN /\ svc' = [svc EXCEPT !.pc = "returned"]
                 /\ trace' = trace \o <<"commitTransaction", "return">>
            ELSE IF HasCatch(svc.entity)
            THEN /\ svc' = [svc EXCEPT !.pc = "catch", !.error = ThrownTypeError,
                                        !.cause = ThrownTypeError]
                 /\ trace' = trace \o <<"commitTransaction", "fail">>
            ELSE /\ svc' = [svc EXCEPT !.pc = "raised", !.error = ThrownTypeError,
                                        !.cause = ThrownTypeError]
                 /\ trace' = trace \o <<"commitTransaction", "fail", "throw">>
  /\ UNCHANGED <<flag, mgr>>
  /\ UNCHANGED <<memVars, relVars, viewVars, tenantVars, raceVars>>

\* catch (error) { abortTransaction(session); handleUniqueFieldError; throw }
Catch ==
  /\ svc.pc = "catch"
  /\ LET r == abortTransaction(flag, svc.session, conn, store)
     IN  /\ conn' = r.conn
         /\ store' = r.store
         /\ svc' = [svc EXCEPT !.pc = "raised",
                               !.error = IF r.outcome = "ok"
                                         THEN Rethrown(svc.op, svc.entity, svc.error)
                                         ELSE ThrownTypeError]
  /\ trace' = trace \o <<"abortTransaction", "throw">>
  /\ UNCHANGED <<flag, mgr>>
  /\ UNCHANGED <<memVars, relVars, viewVars, tenantVars, raceVars>>

NextTx ==
  \/ \E e \in Entities, op \in ServiceOps, n \in 0..MaxIds : Start(e, op, n)
  \/ OpenSession
  \/ RepoWrite
  \/ RepoReturn
  \/ \E kind \in RepoErrors : RepoFail(kind)
  \/ Commit
  \/ Catch

SpecTx == InitSession /\ [][NextTx]_vars

(* --------------------------- two-way relations ------------------------ *)

\* updateMany({_id: {$in: field}}, {$addToSet: {[targetProperty]: record._id}})
ManyToManyAdd(record, bs) ==
  [t \in RelTargets |->
     IF t \in record.field THEN bs[t] \cup {record.id} ELSE bs[t]]

\* updateMany({_id: {$nin: field}, [targetProperty]: {$in: record._id}},
\*            {$pull: {[targetProperty]: record._id}})
ManyToManyPull(record, bs) ==
  [t \in RelTargets |->
     IF t \notin record.field /\ record.id \in bs[t]
     THEN bs[t] \ {record.id} ELSE bs[t]]

\* A sync that only adds.
refreshTwoWayRelationManyToMany_addOnly(record, bs) == ManyToManyAdd(record, bs)

refreshTwoWayRelationManyToMany(record, bs) ==
  ManyToManyPull(record, ManyToManyAdd(record, bs))

\* sourceModel.updateMany({_id: {$nin: record._id}, [sourceProperty]: {$in: field}},
\*                        {$pullAll: {[sourceProperty]: field}})
ManyToOnePullAll(record, ls) ==
  [s \in RelSources |->
     IF s # record.id /\ ls[s] \cap record.field # {}
     THEN ls[s] \ record.field ELSE ls[s]]

\* targetModel.updateMany({_id: {$in: field}}, {[targetProperty]: record._id})
ManyToOneSet(record, o) ==
  [t \in RelTargets |-> IF t \in record.field THEN record.id ELSE o[t]]

\* targetModel.updateMany({_id: {$nin: field}, [targetProperty]: record._id},
\*                        {[targetProperty]: null})
ManyToOneClear(record, o) ==
  [t \in RelTargets |->
     IF t \notin record.field /\ o[t] = record.id THEN Null ELSE o[t]]

\* A sync that leaves the other source records alone.
refreshTwoWayRelationManyToOne_noPullAll(record, ls, o) ==
  [links |-> ls, backRef |-> ManyToOneClear(record, ManyToOneSet(record, o))]

refreshTwoWayRelationManyToOne(record, ls, o) ==
  [links |-> ManyToOnePullAll(record, ls),
   backRef |-> ManyToOneClear(record, ManyToOneSet(record, o))]

Before ==
  [links |-> links, backRefs |-> backRefs, backRef |-> backRef, backArr |-> backArr]

\* A source record of a many-to-many relation is stored with the target ids
\* given and the relation is synced for it.
SaveManyToMany(s, ids) ==
  LET record == [id |-> s, field |-> ids]
  IN  /\ links' = [links EXCEPT ![s] = ids]
      /\ backRefs' = refreshTwoWayRelationManyToMany(record, backRefs)
      /\ relLast' = [op |-> "manyToMany", id |-> s, field |-> ids, ref |-> Null]
      /\ relPrev' = Before
      /\ UNCHANGED <<backRef, backArr>>
      /\ UNCHANGED <<memVars, txVars, viewVars, tenantVars, raceVars>>

\* A source record of a many-to-one relation is stored with the target ids
\* given and the relation is synced for it.
SaveManyToOne(s, ids) ==
  LET record == [id |-> s, field |-> ids]
      r == refreshTwoWayRelationManyToOne(record, [links EXCEPT ![s] = ids], backRef)
  IN  /\ links' = r.links
      /\ backRef' = r.backRef
      /\ relLast' = [op |-> "manyToOne", id |-> s, field |-> ids, ref |-> Null]
      /\ relPrev' = Before
      /\ UNCHANGED <<backRefs, backArr>>
      /\ UNCHANGED <<memVars, txVars, viewVars, tenantVars, raceVars>>

NextManyToMany == \E s \in RelSources, ids \in SUBSET RelTargets : SaveManyToMany(s, ids)

SpecManyToMany == Init /\ [][NextManyToMany]_vars

NextManyToOne == \E s \in RelSources, ids \in SUBSET RelTargets : SaveManyToOne(s, ids)

SpecManyToOne == Init /\ [][NextManyToOne]_vars

\* $push in place of $addToSet: the id is appended whether or not it is there.
AddToSet_push(arr, x) == Append(arr, x)

\* {$addToSet: {[targetProperty]: x}} on one array.
AddToSet(arr, x) == IF Includes(arr, x) THEN arr ELSE Append(arr, x)

\* {$pull: {[targetProperty]: x}} on one array: every occurrence goes.
PullId(arr, x) == Without(arr, <<x>>)

\* targetModel.updateOne({_id: record[sourceProperty]}, {$addToSet: ...})
OneToManyAdd(record, arrs) ==
  [t \in RelTargets |->
     IF t = record.ref THEN AddToSet(arrs[t], record.id) ELSE arrs[t]]

\* targetModel.updateMany({_id: {$ne: record[sourceProperty]},
\*                         [targetProperty]: record._id}, {$pull: ...})
OneToManyPull(record, arrs) ==
  [t \in RelTargets |->
     IF t # record.ref /\ Includes(arrs[t], record.id)
     THEN PullId(arrs[t], record.id) ELSE arrs[t]]

refreshTwoWayRelationOneToMany(record, arrs) ==
  OneToManyPull(record, OneToManyAdd(record, arrs))

\* The sync of a one-to-many relation for a source record whose field names
\* target t, or no target.
SyncOneToMany(s, t) ==
  LET record == [id |-> s, ref |-> t]
  IN  /\ backArr' = refreshTwoWayRelationOneToMany(record, backArr)
      /\ relLast' = [op |-> "oneToMany", id |-> s, field |-> {}, ref |-> t]
      /\ relPrev' = Before
      /\ UNCHANGED <<links, backRefs, backRef>>
      /\ UNCHANGED <<memVars, txVars, viewVars, tenantVars, raceVars>>

NextOneToMany ==
  \E s \in RelSources, t \in RelTargets \cup {Null} : SyncOneToMany(s, t)

SpecOneToMany == Init /\ [][NextOneToMany]_vars

\* A clearing that nulls the field of every target record.
destroyRelationToOne_all(recordId, o) == [t \in RelTargets |-> Null]

\* targetModel.updateMany({[targetProperty]: recordId}, {[targetProperty]: null})
destroyRelationToOne(recordId, o) ==
  [t \in RelTargets |-> IF o[t] = recordId THEN Null ELSE o[t]]

\* targetModel.updateMany({[targetProperty]: recordId},
\*                        {$pull: {[targetProperty]: recordId}})
destroyRelationToMany(recordId, arrs) ==
  [t \in RelTargets |->
     IF Includes(arrs[t], recordId) THEN PullId(arrs[t], recordId) ELSE arrs[t]]

\* The record with this id is deleted and the single back-references to it
\* are cleared.
DestroyToOne(recordId) ==
  /\ links' = [links EXCEPT ![recordId] = {}]
  /\ backRef' = destroyRelationToOne(recordId, backRef)
  /\ relLast' = [op |-> "destroyToOne", id |-> recordId, field |-> {}, ref |-> Null]
  /\ relPrev' = Before
  /\ UNCHANGED <<backRefs, backArr>>
  /\ UNCHANGED <<memVars, txVars, viewVars, tenantVars, raceVars>>

\* The record with this id is deleted and it is taken out of the
\* back-reference arrays.
DestroyToMany(recordId) ==
  /\ backArr' = destroyRelationToMany(recordId, backArr)
  /\ relLast' = [op |-> "destroyToMany", id |-> recordId, field |-> {}, ref |-> Null]
  /\ relPrev' = Before
  /\ UNCHANGED <<links, backRefs, backRef>>
  /\ UNCHANGED <<memVars, txVars, viewVars, tenantVars, raceVars>>

NextDestroy ==
  \/ \E s \in RelSources, ids \in SUBSET RelTargets : SaveManyToOne(s, ids)
  \/ \E s \in RelSources, t \in RelTargets \cup {Null} : SyncOneToMany(s, t)
  \/ \E s \in RelSources : DestroyToOne(s)
  \/ \E s \in RelSources : DestroyToMany(s)

SpecDestroy == Init /\ [][NextDestroy]_vars

(* ------------------------- lookups of user records -------------------- *)

\* user.toObject(): the plain object with every field of the document.
toObject(user) ==
  [id |-> user.id, email |-> user.email, fullName |-> user.fullName,
   tenants |-> user.tenants]

\* The fields a view has whatever the status.
ScopedView(user, roles, status) ==
  [id |-> user.id, email |-> user.email, roles |-> roles, status |-> status]

\* A mapper that never redacts.
mapUserForTenant_open(user, tenant) ==
  LET i == FindIndex(user.tenants, tenant)
  IN  [id |-> user.id, email |-> user.email, fullName |-> user.fullName,
       tenants |-> user.tenants,
       roles |-> IF i = 0 THEN <<>> ELSE user.tenants[i].roles,
       status |-> IF i = 0 THEN Null ELSE user.tenants[i].status]

\* UserRepository._mapUserForTenant
mapUserForTenant(user, tenant) ==
  LET i == FindIndex(user.tenants, tenant)
      status == IF i = 0 THEN Null ELSE user.tenants[i].status
      roles == IF i = 0 THEN <<>> ELSE user.tenants[i].roles
      o == toObject(user)
  IN  IF status = "active"
      THEN [id |-> user.id, email |-> user.email, fullName |-> o.fullName,
            tenants |-> o.tenants, roles |-> roles, status |-> status]
      ELSE ScopedView(user, roles, status)

\* A membership test that every user passes.
isUserInTenant_anyone(user, tenantId) == TRUE

isUserInTenant(user, tenantId) ==
  \E i \in 1..Len(user.tenants) : user.tenants[i].tenant = tenantId

\* tenants: {$elemMatch: {tenant: id}}
MemberOf(user, tenantId) ==
  \E i \in 1..Len(user.tenants) : user.tenants[i].tenant = tenantId

\* tenants: {$elemMatch: {roles: role}}
SomeRole(user, role) ==
  \E i \in 1..Len(user.tenants) : Includes(user.tenants[i].roles, role)

\* tenants: {$elemMatch: {status: status}}
SomeStatus(user, status) ==
  \E i \in 1..Len(user.tenants) : user.tenants[i].status = status

\* The documents of the collection in the order a find returns them.
UserOrder == <<"u1", "u2">>

\* The documents, in order, of the users that satisfy the criteria.
RECURSIVE FindUsers(_, _, _)
FindUsers(db, matching, order) ==
  IF order = <<>> THEN <<>>
  ELSE LET rest == FindUsers(db, matching, Tail(order))
       IN  IF Head(order) \in matching THEN <<db[Head(order)]>> \o rest ELSE rest

Ok(rows, count) == [outcome |-> "ok", rows |-> rows, count |-> count]
Error404 == [outcome |-> "Error404", rows |-> <<>>, count |-> 0]

\* UserRepository.findById
findById(db, q) ==
  IF q.id \notin DOMAIN db THEN Error404
  ELSE IF ~q.bypass
  THEN IF ~isUserInTenant(db[q.id], q.tenant) THEN Error404
       ELSE Ok(<<mapUserForTenant(db[q.id], q.tenant)>>, 1)
  ELSE Ok(<<toObject(db[q.id])>>, 1)

\* UserRepository.findByEmail
findByEmail(db, q) ==
  LET Crit(user) == user.email = q.email
      found == FindUsers(db, {u \in Users : Crit(db[u])}, UserOrder)
  IN  IF found = <<>> THEN Ok(<<>>, 0) ELSE Ok(<<toObject(found[1])>>, 1)

\* UserRepository.findAndCountAll
findAndCountAll(db, q) ==
  LET Crit(user) ==
        /\ MemberOf(user, q.tenant)
        /\ q.fullName # "any" => user.fullName = q.fullName
        /\ q.role # "any" => SomeRole(user, q.role)
        /\ q.status # "any" => SomeStatus(user, q.status)
      found == FindUsers(db, {u \in Users : Crit(db[u])}, UserOrder)
  IN  Ok([i \in 1..Len(found) |-> mapUserForTenant(found[i], q.tenant)], Len(found))

\* The label of an autocomplete entry: the name if the view has one, and
\* the email.
Label(v) ==
  [fullName |-> IF "fullName" \in DOMAIN v THEN v.fullName ELSE Null,
   email |-> v.email]

\* UserRepository.findAllAutocomplete
findAllAutocomplete(db, q) ==
  LET Crit(user) ==
        /\ MemberOf(user, q.tenant)
        /\ q.search # "any" =>
             \/ user.id = q.search
             \/ user.fullName = q.search
             \/ user.email = q.search
      found == FindUsers(db, {u \in Users : Crit(db[u])}, UserOrder)
  IN  Ok([i \in 1..Len(found) |->
            LET v == mapUserForTenant(found[i], q.tenant)
            IN  [id |-> v.id, label |-> Label(v)]],
         Len(found))

\* The mapper applied to one user document.
mapOne(db, q) == Ok(<<mapUserForTenant(db[q.id], q.tenant)>>, 1)

Lookup(db, q) ==
  CASE q.op = "findById" -> findById(db, q)
    [] q.op = "findByEmail" -> findByEmail(db, q)
    [] q.op = "findAndCountAll" -> findAndCountAll(db, q)
    [] q.op = "findAllAutocomplete" -> findAllAutocomplete(db, q)
    [] q.op = "mapUserForTenant" -> mapOne(db, q)
    [] OTHER -> Ok(<<>>, 0)

\* No lookup was made yet.
Unasked == view.q.op = "none"

\* The lookup is made and its result kept.
Answer(q) ==
  /\ LET r == Lookup(accounts, q)
     IN  view' = [q |-> q, outcome |-> r.outcome, rows |-> r.rows, count |-> r.count]
  /\ UNCHANGED accounts
  /\ UNCHANGED <<memVars, txVars, relVars, tenantVars, raceVars>>

FindById(id, bypass) ==
  /\ Unasked
  /\ Answer([NoQuery EXCEPT !.op = "findById", !.id = id, !.bypass = bypass])

FindByEmail(u) ==
  /\ Unasked
  /\ Answer([NoQuery EXCEPT !.op = "findByEmail", !.email = EmailOf(u)])

FindAndCountAll(name, role, status) ==
  /\ Unasked
  /\ Answer([NoQuery EXCEPT !.op = "findAndCountAll", !.fullName = name,
                            !.role = role, !.status = status])

FindAllAutocomplete(search) ==
  /\ Unasked
  /\ Answer([NoQuery EXCEPT !.op = "findAllAutocomplete", !.search = search])

MapUserForTenant(u) ==
  /\ Unasked
  /\ Answer([NoQuery EXCEPT !.op = "mapUserForTenant", !.id = u])

\* The user documents looked up: one user with up to MaxMemberships
\* memberships, the other with one at most.
InitLookup ==
  /\ InitMem
  /\ InitTx
  /\ accounts \in {[u \in Users |-> IF u = "u1" THEN a ELSE b] :
                     a \in UserDocs("u1", MaxMemberships), b \in UserDocs("u2", 1)}
  /\ view = NoView
  /\ InitTenant
  /\ InitRace

NextLookup ==
  \/ \E id \in UserIds, bypass \in BOOLEAN : FindById(id, bypass)
  \/ \E u \in UserIds : FindByEmail(u)
  \/ \E name \in {"any", "Ann"}, role \in {"any", "admin"},
        status \in {"any", "active", "invited"} : FindAndCountAll(name, role, status)
  \/ \E search \in {"any", "Ann", "u1@x"} : FindAllAutocomplete(search)
  \/ \E u \in Users : MapUserForTenant(u)

SpecLookup == InitLookup /\ [][NextLookup]_vars

(* ------------------------------- tenants ------------------------------ *)

\* uuid(): the n-th generated URL, which no earlier URL equals.
GenUrl(n) ==
  CASE n = 1 -> "uuid-1" [] n = 2 -> "uuid-2" [] n = 3 -> "uuid-3"
    [] n = 4 -> "uuid-4" [] OTHER -> "uuid-5"

\* this.count({url}) over the tenants other than `but`.
UrlCount(db, url, but) ==
  Cardinality({t \in TenantIds \ but : db[t].exists /\ db[t].url = url})

\* A check of the URL that lets the reserved word pass.
UrlRefused_noReserved(db, url, but) == UrlCount(db, url, but) > 0

\* forbiddenTenantUrls.includes(data.url) || existsUrl
UrlRefused(db, url, but) ==
  url \in forbiddenTenantUrls \/ UrlCount(db, url, but) > 0

\* The id the store gives the next tenant.
FreeId == CHOOSE t \in TenantIds : ~tenantDb[t].exists

\* The current user as the options carry it.
CurrentUser(cu) == [tenants |-> users[cu]]

TenantBefore == [tenantDb |-> tenantDb, records |-> records]

\* What every tenant call does to the variables of the memberships besides
\* the membership lists.
TenantCall ==
  /\ calls < MaxCalls
  /\ calls' = calls + 1
  /\ prev' = users
  /\ last' = NoCall
  /\ tprev' = TenantBefore
  /\ UNCHANGED <<nextToken, contract, accepted, sel>>
  /\ UNCHANGED <<txVars, relVars, viewVars, raceVars>>

\* TenantRepository.create
TenantCreate(arg) ==
  LET url == IF arg = NoUrl THEN GenUrl(generated + 1) ELSE arg
      fails == UrlRefused(tenantDb, url, {})
  IN  /\ TenantCall
      /\ \E t \in TenantIds : ~tenantDb[t].exists
      /\ generated' = IF arg = NoUrl THEN generated + 1 ELSE generated
      /\ tenantDb' = IF fails THEN tenantDb
                     ELSE [tenantDb EXCEPT ![FreeId] = [exists |-> TRUE, url |-> url]]
      /\ tlast' = [op |-> "create", id |-> FreeId, url |-> arg, user |-> "u1",
                   outcome |-> IF fails THEN "Error400" ELSE "ok",
                   audit |-> IF fails THEN <<>> ELSE <<"create">>]
      /\ UNCHANGED <<users, records>>

\* TenantRepository.update
TenantUpdate(id, arg, cu) ==
  LET member == isUserInTenant(CurrentUser(cu), id)
      record == tenantDb[id]
      url == IF arg = NoUrl THEN record.url ELSE arg
      fails == UrlRefused(tenantDb, url, {id})
      outcome == IF ~member THEN "Error404"
                 ELSE IF fails THEN "Error400" ELSE "ok"
  IN  /\ TenantCall
      /\ member => record.exists
      /\ tenantDb' = IF outcome = "ok" THEN [tenantDb EXCEPT ![id].url = url]
                     ELSE tenantDb
      /\ tlast' = [op |-> "update", id |-> id, url |-> arg, user |-> cu,
                   outcome |-> outcome,
                   audit |-> IF outcome = "ok" THEN <<"update">> ELSE <<>>]
      /\ UNCHANGED <<users, records, generated>>

\* A destroy that leaves the users' membership lists alone.
TenantDestroy_keepMembers(id, cu) ==
  LET member == isUserInTenant(CurrentUser(cu), id)
  IN  /\ TenantCall
      /\ tenantDb' = IF member THEN [tenantDb EXCEPT ![id] = NoTenant] ELSE tenantDb
      /\ records' = IF member
                    THEN [k \in TenantEntities \X TenantIds |->
                            IF k[2] = id THEN 0 ELSE records[k]]
                    ELSE records
      /\ tlast' = [op |-> "destroy", id |-> id, url |-> NoUrl, user |-> cu,
                   outcome |-> IF member THEN "ok" ELSE "Error404",
                   audit |-> IF member THEN <<"delete">> ELSE <<>>]
      /\ UNCHANGED <<users, generated>>

\* A destroy whose deleteMany filters select the records of every tenant.
TenantDestroy_everyTenant(id, cu) ==
  LET member == isUserInTenant(CurrentUser(cu), id)
  IN  /\ TenantCall
      /\ tenantDb' = IF member THEN [tenantDb EXCEPT ![id] = NoTenant] ELSE tenantDb
      /\ records' = IF member THEN [k \in TenantEntities \X TenantIds |-> 0]
                    ELSE records
      /\ users' = IF member THEN [u \in Users |-> Pull(users[u], id)] ELSE users
      /\ tlast' = [op |-> "destroy", id |-> id, url |-> NoUrl, user |-> cu,
                   outcome |-> IF member THEN "ok" ELSE "Error404",
                   audit |-> IF member THEN <<"delete">> ELSE <<>>]
      /\ UNCHANGED generated

\* TenantRepository.destroy
TenantDestroy(id, cu) ==
  LET member == isUserInTenant(CurrentUser(cu), id)
  IN  /\ TenantCall
      /\ tenantDb' = IF member THEN [tenantDb EXCEPT ![id] = NoTenant] ELSE tenantDb
      /\ records' = IF member
                    THEN [k \in TenantEntities \X TenantIds |->
                            IF k[2] = id THEN 0 ELSE records[k]]
                    ELSE records
      /\ users' = IF member THEN [u \in Users |-> Pull(users[u], id)] ELSE users
      /\ tlast' = [op |-> "destroy", id |-> id, url |-> NoUrl, user |-> cu,
                   outcome |-> IF member THEN "ok" ELSE "Error404",
                   audit |-> IF member THEN <<"delete">> ELSE <<>>]
      /\ UNCHANGED generated

\* A record of a tenant-scoped collection is created for an existing tenant.
AddRecord(entity, t) ==
  /\ TenantCall
  /\ tenantDb[t].exists
  /\ records' = [records EXCEPT ![<<entity, t>>] = @ + 1]
  /\ tlast' = [NoTenantCall EXCEPT !.op = "addRecord", !.id = t]
  /\ UNCHANGED <<users, tenantDb, generated>>

\* TenantUserRepository.create for an existing tenant: the user joins it.
Join(u, t) ==
  /\ TenantCall
  /\ tenantDb[t].exists
  /\ users' = [users EXCEPT ![u] = Append(@, Membership(t, "active", <<"admin">>, NoToken))]
  /\ tlast' = [NoTenantCall EXCEPT !.op = "join", !.id = t, !.user = u]
  /\ UNCHANGED <<tenantDb, records, generated>>

\* Two tenants, each with a member and with records of every collection.
InitTenants ==
  /\ users = [u \in Users |->
                <<Membership(IF u = "u1" THEN "t1" ELSE "t2", "active",
                             <<"admin">>, NoToken)>>]
  /\ nextToken = 0
  /\ last = NoCall
  /\ prev = users
  /\ contract = TRUE
  /\ accepted = {}
  /\ calls = 0
  /\ sel = NoSel
  /\ InitTx
  /\ InitView
  /\ InitRace
  /\ tenantDb = [t \in TenantIds |->
                   IF t = "t1" THEN [exists |-> TRUE, url |-> "a"]
                   ELSE IF t = "t2" THEN [exists |-> TRUE, url |-> "b"]
                   ELSE NoTenant]
  /\ records = [k \in TenantEntities \X TenantIds |-> IF k[2] = "t3" THEN 0 ELSE 1]
  /\ generated = 0
  /\ tlast = NoTenantCall
  /\ tprev = TenantBefore

NextTenant ==
  \/ \E arg \in GivenUrls \cup {NoUrl} : TenantCreate(arg)
  \/ \E id \in TenantIds, arg \in GivenUrls \cup {NoUrl}, cu \in Users :
       TenantUpdate(id, arg, cu)
  \/ \E id \in TenantIds, cu \in Users : TenantDestroy(id, cu)
  \/ \E entity \in TenantEntities, t \in TenantIds : AddRecord(entity, t)
  \/ \E u \in Users, t \in TenantIds : Join(u, t)

SpecTenant == InitTenants /\ [][NextTenant]_vars

(* ---------------- concurrent calls: the settings of a tenant ----------- *)

\* What the concurrent calls leave alone whatever they are.
RaceFrame == UNCHANGED <<txVars, relVars, viewVars>>

\* The tenants the concurrent calls are made for.
RaceTenants == {"t1", "t2"}

SettingsIdle ==
  [op |-> "none", pc |-> "idle", tenant |-> "t1", first |-> FALSE, created |-> FALSE]

\* SettingsRepository.findOrCreateDefault, its findOne: the call returns the
\* record found, or goes on to create one.
SettingsFindOne(p, t) ==
  LET first == records[<<"settings", t>>] > 0
  IN  /\ procs[p].pc = "idle"
      /\ calls < MaxCalls
      /\ calls' = calls + 1
      /\ procs' = [procs EXCEPT ![p] =
                     [op |-> "findOrCreateDefault",
                      pc |-> IF first THEN "done" ELSE "create",
                      tenant |-> t, first |-> first, created |-> FALSE]]
      /\ UNCHANGED <<users, nextToken, last, prev, contract, accepted, sel>>
      /\ UNCHANGED <<tenantVars, hist>>
      /\ RaceFrame

\* SettingsRepository.findOrCreateDefault, its Settings.create.
SettingsCreate(p) ==
  /\ procs[p].pc = "create"
  /\ records' = [records EXCEPT ![<<"settings", procs[p].tenant>>] = @ + 1]
  /\ procs' = [procs EXCEPT ![p].pc = "done", ![p].created = TRUE]
  /\ hist' = Append(hist, [p |-> p, write |-> "create", tenant |-> procs[p].tenant])
  /\ UNCHANGED <<memVars, tenantDb, generated, tlast, tprev>>
  /\ RaceFrame

\* The call has returned; its caller can make another.
SettingsReturn(p) ==
  /\ procs[p].pc = "done"
  /\ calls < MaxCalls
  /\ procs' = [procs EXCEPT ![p] = SettingsIdle]
  /\ UNCHANGED <<memVars, tenantVars, hist>>
  /\ RaceFrame

\* Two tenants, neither with a settings record yet.
InitSettings ==
  /\ InitMem
  /\ InitTx
  /\ InitView
  /\ tenantDb = [t \in TenantIds |->
                   IF t = "t1" THEN [exists |-> TRUE, url |-> "a"]
                   ELSE IF t = "t2" THEN [exists |-> TRUE, url |-> "b"]
                   ELSE NoTenant]
  /\ records = [k \in TenantEntities \X TenantIds |-> 0]
  /\ generated = 0
  /\ tlast = NoTenantCall
  /\ tprev = TenantBefore
  /\ procs = [p \in RaceProcs |-> SettingsIdle]
  /\ hist = <<>>

NextSettings ==
  \/ \E p \in RaceProcs, t \in RaceTenants : SettingsFindOne(p, t)
  \/ \E p \in RaceProcs : SettingsCreate(p)
  \/ \E p \in RaceProcs : SettingsReturn(p)

SpecSettings == InitSettings /\ [][NextSettings]_vars

(* ------------- concurrent calls: create and update of tenants --------- *)

TenantIdle ==
  [op |-> "none", pc |-> "idle", id |-> "t1", url |-> NoUrl, outcome |-> "none"]

\* A concurrent call leaves the memberships and the other tenant state alone.
TenantRaceFrame ==
  /\ UNCHANGED <<users, nextToken, last, prev, contract, accepted, sel>>
  /\ UNCHANGED <<records, tlast, tprev, hist>>
  /\ RaceFrame

\* TenantRepository.create up to its check of the URL: the URL given or
\* generated, the count of the tenants with it, Error400 if it is refused.
TenantCreateCheck(p, arg) ==
  LET url == IF arg = NoUrl THEN GenUrl(generated + 1) ELSE arg
      fails == UrlRefused(tenantDb, url, {})
  IN  /\ procs[p].pc = "idle"
      /\ calls < MaxCalls
      /\ calls' = calls + 1
      /\ generated' = IF arg = NoUrl THEN generated + 1 ELSE generated
      /\ procs' = [procs EXCEPT ![p] =
                     [op |-> "create", pc |-> IF fails THEN "done" ELSE "write",
                      id |-> "t1", url |-> url,
                      outcome |-> IF fails THEN "Error400" ELSE "none"]]
      /\ UNCHANGED tenantDb
      /\ TenantRaceFrame

\* TenantRepository.create, its Tenant.create.
TenantCreateInsert(p) ==
  /\ procs[p].op = "create"
  /\ procs[p].pc = "write"
  /\ \E t \in TenantIds : ~tenantDb[t].exists
  /\ tenantDb' = [tenantDb EXCEPT ![FreeId] = [exists |-> TRUE, url |-> procs[p].url]]
  /\ procs' = [procs EXCEPT ![p].pc = "done", ![p].id = FreeId, ![p].outcome = "ok"]
  /\ UNCHANGED <<calls, generated>>
  /\ TenantRaceFrame

\* TenantRepository.update up to its check of the URL: the membership test,
\* findById, the URL given or kept, the count of the other tenants with it.
TenantUpdateCheck(p, id, arg, cu) ==
  LET member == isUserInTenant(CurrentUser(cu), id)
      record == tenantDb[id]
      url == IF arg = NoUrl THEN record.url ELSE arg
      outcome == IF ~member \/ ~record.exists THEN "Error404"
                 ELSE IF UrlRefused(tenantDb, url, {id}) THEN "Error400"
                 ELSE "none"
  IN  /\ procs[p].pc = "idle"
      /\ calls < MaxCalls
      /\ calls' = calls + 1
      /\ procs' = [procs EXCEPT ![p] =
                     [op |-> "update", pc |-> IF outcome = "none" THEN "write" ELSE "done",
                      id |-> id, url |-> url, outcome |-> outcome]]
      /\ UNCHANGED <<tenantDb, generated>>
      /\ TenantRaceFrame

\* TenantRepository.update, its updateOne({_id: id}, data).
TenantUpdateWrite(p) ==
  /\ procs[p].op = "update"
  /\ procs[p].pc = "write"
  /\ tenantDb' = IF tenantDb[procs[p].id].exists
                 THEN [tenantDb EXCEPT ![procs[p].id].url = procs[p].url]
                 ELSE tenantDb
  /\ procs' = [procs EXCEPT ![p].pc = "done", ![p].outcome = "ok"]
  /\ UNCHANGED <<calls, generated>>
  /\ TenantRaceFrame

\* The call has returned or thrown; its caller can make another.
TenantRaceReturn(p) ==
  /\ procs[p].pc = "done"
  /\ calls < MaxCalls
  /\ procs' = [procs EXCEPT ![p] = TenantIdle]
  /\ UNCHANGED <<calls, tenantDb, generated>>
  /\ TenantRaceFrame

\* Two tenants with different URLs, each with a member, and no call running.
InitTenantRace ==
  /\ users = [u \in Users |->
                <<Membership(IF u = "u1" THEN "t1" ELSE "t2", "active",
                             <<"admin">>, NoToken)>>]
  /\ nextToken = 0
  /\ last = NoCall
  /\ prev = users
  /\ contract = TRUE
  /\ accepted = {}
  /\ calls = 0
  /\ sel = NoSel
  /\ InitTx
  /\ InitView
  /\ tenantDb = [t \in TenantIds |->
                   IF t = "t1" THEN [exists |-> TRUE, url |-> "a"]
                   ELSE IF t = "t2" THEN [exists |-> TRUE, url |-> "b"]
                   ELSE NoTenant]
  /\ records = [k \in TenantEntities \X TenantIds |-> 0]
  /\ generated = 0
  /\ tlast = NoTenantCall
  /\ tprev = TenantBefore
  /\ procs = [p \in RaceProcs |-> TenantIdle]
  /\ hist = <<>>

NextTenantRace ==
  \/ \E p \in RaceProcs, arg \in GivenUrls \cup {NoUrl} : TenantCreateCheck(p, arg)
  \/ \E p \in RaceProcs : TenantCreateInsert(p)
  \/ \E p \in RaceProcs, id \in TenantIds, arg \in GivenUrls \cup {NoUrl}, cu \in Users :
       TenantUpdateCheck(p, id, arg, cu)
  \/ \E p \in RaceProcs : TenantUpdateWrite(p)
  \/ \E p \in RaceProcs : TenantRaceReturn(p)

SpecTenantRace == InitTenantRace /\ [][NextTenantRace]_vars

(* --------------- concurrent calls: updateRoles in sessions ------------ *)

\* The tenant of the concurrent membership calls.
RaceTenant == "t1"

\* The role arguments of the concurrent calls.
RaceRoleArgs == {Absent, Given(<<>>), Given(<<"admin">>), Given(<<"custom">>)}

\* The membership lists a user can have when the concurrent calls start:
\* none, or one membership for the tenant.
RaceLists ==
  {<<>>,
   <<Membership(RaceTenant, "active", <<"admin">>, NoToken)>>,
   <<Membership(RaceTenant, "empty-permissions", <<>>, NoToken)>>}

\* A membership not read yet.
NoMembership == Membership(RaceTenant, "none", <<>>, NoToken)

RoleIdle ==
  [op |-> "none", pc |-> "idle", user |-> "u1", roles |-> Absent, mode |-> "replace",
   snap |-> [u \in Users |-> <<>>], view |-> [u \in Users |-> <<>>], wrote |-> {},
   log |-> <<>>, found |-> FALSE, tenantUser |-> NoMembership, isCreation |-> FALSE,
   outcome |-> "none"]

\* updateRoles: the roles it computes from the roles of the membership it
\* read, the roles given and the mode.
newRolesOf(existingRoles, r, mode) ==
  IF mode = "add" THEN Dedup(existingRoles \o r.list)
  ELSE IF mode = "removeListed" THEN Without(existingRoles, r.list)
  ELSE OrEmpty(r)

\* The user documents as the call's session reads them: its transaction's
\* snapshot with its own writes, or the store when it has no session.
SessionView(p) == IF flag THEN procs[p].view ELSE users

\* A write of the call's transaction to the document of user u conflicts
\* when the document changed since the snapshot or another transaction
\* holds a write to it.
WriteConflicts(p, u) ==
  /\ flag
  /\ \/ users[u] # procs[p].snap[u]
     \/ \E q \in RaceProcs \ {p} :
          procs[q].pc \notin {"idle", "done"} /\ u \in procs[q].wrote

\* The store after the call's write of list to the document of user u: the
\* write is applied at once without a session, and held by the transaction
\* with one.
StoreAfterWrite(p, u, list) == IF flag THEN users ELSE [users EXCEPT ![u] = list]

\* The call's locals after its write named w.
LocalsAfterWrite(p, u, list, w) ==
  IF flag
  THEN [procs[p] EXCEPT !.view = [@ EXCEPT ![u] = list], !.wrote = @ \cup {u},
                        !.log = Append(@, [p |-> p, write |-> w, user |-> u])]
  ELSE procs[p]

\* The order of the applied writes after the call's write named w.
HistAfterWrite(p, u, w) ==
  IF flag THEN hist ELSE Append(hist, [p |-> p, write |-> w, user |-> u])

\* A step of a concurrent membership call leaves the rest alone.
RoleRaceFrame ==
  /\ UNCHANGED <<last, prev, contract, accepted, calls, sel>>
  /\ UNCHANGED <<flag, conn, store, svc, trace, mgr>>
  /\ UNCHANGED <<relVars, viewVars, tenantVars>>

\* updateRoles up to its first write: findById and the find of the
\* membership; without one, the invited membership with a fresh token.
UpdateRolesFind(p, u, r, mode) ==
  LET found == FindIndex(users[u], RaceTenant)
      isCreation == (found = 0)
      token == nextToken + 1
      tenantUser == IF isCreation THEN InvitedMembership(RaceTenant, token)
                    ELSE users[u][found]
  IN  /\ procs[p].pc = "idle"
      /\ procs' = [procs EXCEPT ![p] =
                     [RoleIdle EXCEPT !.op = "updateRoles",
                                      !.pc = IF isCreation THEN "push" ELSE "set",
                                      !.user = u, !.roles = r, !.mode = mode,
                                      !.snap = users, !.view = users,
                                      !.found = ~isCreation,
                                      !.tenantUser = tenantUser,
                                      !.isCreation = isCreation]]
      /\ nextToken' = IF isCreation THEN token ELSE nextToken
      /\ UNCHANGED <<users, hist>>
      /\ RoleRaceFrame

\* updateRoles, its $push of the invited membership.
UpdateRolesPush(p) ==
  LET u == procs[p].user
      list == Append(SessionView(p)[u], procs[p].tenantUser)
  IN  /\ procs[p].op = "updateRoles"
      /\ procs[p].pc = "push"
      /\ IF WriteConflicts(p, u)
         THEN /\ procs' = [procs EXCEPT ![p].pc = "failed", ![p].outcome = "WriteConflict"]
              /\ UNCHANGED <<users, hist>>
         ELSE /\ users' = StoreAfterWrite(p, u, list)
              /\ procs' = [procs EXCEPT ![p] =
                             [LocalsAfterWrite(p, u, list, "push") EXCEPT !.pc = "set"]]
              /\ hist' = HistAfterWrite(p, u, "push")
      /\ UNCHANGED nextToken
      /\ RoleRaceFrame

\* An updateRoles whose $set computes the roles from the membership as the
\* store holds it at the write, not from the membership the call read.
UpdateRolesSet_fromStore(p) ==
  LET u == procs[p].user
      r == procs[p].roles
      throws == r.absent /\ procs[p].mode \in {"add", "removeListed"}
      current == SessionView(p)[u][FindIndex(SessionView(p)[u], RaceTenant)]
      newRoles == newRolesOf(current.roles, r, procs[p].mode)
      status == selectStatus(current.status, Given(newRoles))
      list == SetFirst(SessionView(p)[u], RaceTenant, newRoles, status)
  IN  /\ procs[p].op = "updateRoles"
      /\ procs[p].pc = "set"
      /\ IF throws
         THEN /\ procs' = [procs EXCEPT ![p].pc = "failed", ![p].outcome = "TypeError"]
              /\ UNCHANGED <<users, hist>>
         ELSE IF WriteConflicts(p, u)
         THEN /\ procs' = [procs EXCEPT ![p].pc = "failed", ![p].outcome = "WriteConflict"]
              /\ UNCHANGED <<users, hist>>
         ELSE /\ users' = StoreAfterWrite(p, u, list)
              /\ procs' = [procs EXCEPT ![p] =
                             [LocalsAfterWrite(p, u, list, "set") EXCEPT
                                !.pc = IF flag THEN "commit" ELSE "done",
                                !.outcome = IF flag THEN "none" ELSE "ok"]]
              /\ hist' = HistAfterWrite(p, u, "set")
      /\ UNCHANGED nextToken
      /\ RoleRaceFrame

\* updateRoles from the new roles to its $set of roles and status on the
\* first membership for the tenant.
UpdateRolesSet(p) ==
  LET u == procs[p].user
      r == procs[p].roles
      throws == r.absent /\ procs[p].mode \in {"add", "removeListed"}
      newRoles == newRolesOf(procs[p].tenantUser.roles, r, procs[p].mode)
      status == selectStatus(procs[p].tenantUser.status, Given(newRoles))
      list == SetFirst(SessionView(p)[u], RaceTenant, newRoles, status)
  IN  /\ procs[p].op = "updateRoles"
      /\ procs[p].pc = "set"
      /\ IF throws
         THEN /\ procs' = [procs EXCEPT ![p].pc = "failed", ![p].outcome = "TypeError"]
              /\ UNCHANGED <<users, hist>>
         ELSE IF WriteConflicts(p, u)
         THEN /\ procs' = [procs EXCEPT ![p].pc = "failed", ![p].outcome = "WriteConflict"]
              /\ UNCHANGED <<users, hist>>
         ELSE /\ users' = StoreAfterWrite(p, u, list)
              /\ procs' = [procs EXCEPT ![p] =
                             [LocalsAfterWrite(p, u, list, "set") EXCEPT
                                !.pc = IF flag THEN "commit" ELSE "done",
                                !.outcome = IF flag THEN "none" ELSE "ok"]]
              /\ hist' = HistAfterWrite(p, u, "set")
      /\ UNCHANGED nextToken
      /\ RoleRaceFrame

\* The caller commits the call's transaction: its writes reach the store.
RaceCommit(p) ==
  /\ flag
  /\ procs[p].pc = "commit"
  /\ users' = [u \in Users |-> IF u \in procs[p].wrote THEN procs[p].view[u] ELSE users[u]]
  /\ hist' = hist \o procs[p].log
  /\ procs' = [procs EXCEPT ![p].pc = "done", ![p].outcome = "ok", ![p].wrote = {}]
  /\ UNCHANGED nextToken
  /\ RoleRaceFrame

\* The call has thrown: the caller aborts its transaction, if it has one, and
\* the writes the transaction held are dropped.
RaceAbort(p) ==
  /\ procs[p].pc = "failed"
  /\ procs' = [procs EXCEPT ![p].pc = "done", ![p].wrote = {}, ![p].log = <<>>]
  /\ UNCHANGED <<users, nextToken, hist>>
  /\ RoleRaceFrame

\* A user with or without a membership, transactions enabled or not, and
\* no call running.
InitRoles ==
  /\ users \in {[u \in Users |-> IF u = "u1" THEN l ELSE <<>>] : l \in RaceLists}
  /\ nextToken = 0
  /\ last = NoCall
  /\ prev = users
  /\ contract = TRUE
  /\ accepted = {}
  /\ calls = 0
  /\ sel = NoSel
  /\ flag \in BOOLEAN
  /\ conn = NoConn
  /\ store = {}
  /\ svc = Idle
  /\ trace = <<>>
  /\ mgr = NoMgr
  /\ InitRel
  /\ InitView
  /\ InitTenant
  /\ procs = [p \in RaceProcs |-> RoleIdle]
  /\ hist = <<>>

NextRoles ==
  \/ \E p \in RaceProcs, u \in Users, r \in RaceRoleArgs, m \in Modes :
       UpdateRolesFind(p, u, r, m)
  \/ \E p \in RaceProcs : UpdateRolesPush(p)
  \/ \E p \in RaceProcs : UpdateRolesSet(p)
  \/ \E p \in RaceProcs : RaceCommit(p)
  \/ \E p \in RaceProcs : RaceAbort(p)

SpecRoles == InitRoles /\ [][NextRoles]_vars

(* ------------- concurrent calls: acceptInvitation in sessions --------- *)

\* The token of the invitation the calls accept, and the roles it can carry.
RaceToken == 1
InvitationRoles == {<<>>, <<"admin">>}

AcceptIdle ==
  [op |-> "none", pc |-> "idle", user |-> "u1", token |-> NoToken,
   snap |-> [u \in Users |-> <<>>], view |-> [u \in Users |-> <<>>], wrote |-> {},
   log |-> <<>>, found |-> FALSE, holder |-> "u1", invitation |-> NoMembership,
   hasExisting |-> FALSE, existingRoles |-> <<>>, outcome |-> "none"]

\* acceptInvitation up to its first write: findByInvitationToken and the
\* find of the current user's membership for the invitation's tenant.
AcceptFind(p, k, cu) ==
  /\ procs[p].pc = "idle"
  /\ IF Holders(users, k) = {}
     THEN procs' = [procs EXCEPT ![p] =
                      [AcceptIdle EXCEPT !.op = "acceptInvitation", !.pc = "failed",
                                        !.user = cu, !.token = k,
                                        !.snap = users, !.view = users,
                                        !.outcome = "TypeError"]]
     ELSE \E h \in Holders(users, k) :
            LET invitation == TokenMembership(users, h, k)
                found == FindIndex(users[cu], invitation.tenant)
            IN  procs' = [procs EXCEPT ![p] =
                            [AcceptIdle EXCEPT
                               !.op = "acceptInvitation", !.pc = "destroy",
                               !.user = cu, !.token = k,
                               !.snap = users, !.view = users,
                               !.found = TRUE, !.holder = h,
                               !.invitation = invitation,
                               !.hasExisting = (found # 0),
                               !.existingRoles =
                                  IF found = 0 THEN <<>> ELSE users[cu][found].roles]]
  /\ UNCHANGED <<users, nextToken, hist>>
  /\ RoleRaceFrame

\* An acceptInvitation whose destroy does not pass the session on: its $pull
\* is applied to the store at once.
AcceptDestroy_noSession(p) ==
  LET h == procs[p].holder
      list == Pull(users[h], procs[p].invitation.tenant)
  IN  /\ procs[p].op = "acceptInvitation"
      /\ procs[p].pc = "destroy"
      /\ users' = [users EXCEPT ![h] = list]
      /\ procs' = [procs EXCEPT ![p].pc = "push"]
      /\ hist' = Append(hist, [p |-> p, write |-> "pull", user |-> h])
      /\ UNCHANGED nextToken
      /\ RoleRaceFrame

\* acceptInvitation, its this.destroy: the $pull of the memberships for the
\* invitation's tenant from the user who holds the invitation.
AcceptDestroy(p) ==
  LET h == procs[p].holder
      list == Pull(SessionView(p)[h], procs[p].invitation.tenant)
  IN  /\ procs[p].op = "acceptInvitation"
      /\ procs[p].pc = "destroy"
      /\ IF WriteConflicts(p, h)
         THEN /\ procs' = [procs EXCEPT ![p].pc = "failed", ![p].outcome = "WriteConflict"]
              /\ UNCHANGED <<users, hist>>
         ELSE /\ users' = StoreAfterWrite(p, h, list)
              /\ procs' = [procs EXCEPT ![p] =
                             [LocalsAfterWrite(p, h, list, "pull") EXCEPT !.pc = "push"]]
              /\ hist' = HistAfterWrite(p, h, "pull")
      /\ UNCHANGED nextToken
      /\ RoleRaceFrame

\* acceptInvitation, its $push of the accepted membership to the current
\* user.
AcceptPush(p) ==
  LET cu == procs[p].user
      tenantUser == AcceptedMembership(procs[p].invitation, procs[p].hasExisting,
                                       procs[p].existingRoles)
      list == Append(SessionView(p)[cu], tenantUser)
  IN  /\ procs[p].op = "acceptInvitation"
      /\ procs[p].pc = "push"
      /\ IF WriteConflicts(p, cu)
         THEN /\ procs' = [procs EXCEPT ![p].pc = "failed", ![p].outcome = "WriteConflict"]
              /\ UNCHANGED <<users, hist>>
         ELSE /\ users' = StoreAfterWrite(p, cu, list)
              /\ procs' = [procs EXCEPT ![p] =
                             [LocalsAfterWrite(p, cu, list, "push") EXCEPT
                                !.pc = IF flag THEN "commit" ELSE "done",
                                !.outcome = IF flag THEN "none" ELSE "ok"]]
              /\ hist' = HistAfterWrite(p, cu, "push")
      /\ UNCHANGED nextToken
      /\ RoleRaceFrame

\* A write of the call is rejected by the store: the call throws before the
\* write is applied.
AcceptFail(p) ==
  /\ procs[p].op = "acceptInvitation"
  /\ procs[p].pc \in {"destroy", "push"}
  /\ procs' = [procs EXCEPT ![p].pc = "failed", ![p].outcome = "Error"]
  /\ UNCHANGED <<users, nextToken, hist>>
  /\ RoleRaceFrame

\* One user holds the invitation, the other is or is not a member of its
\* tenant; transactions enabled or not; no call running.
InitAccept ==
  /\ users \in {[u \in Users |-> IF u = "u1" THEN <<Membership(RaceTenant, "invited", r, RaceToken)>>
                                 ELSE l] :
                  r \in InvitationRoles,
                  l \in {<<>>, <<Membership(RaceTenant, "active", <<"custom">>, NoToken)>>}}
  /\ nextToken = 1
  /\ last = NoCall
  /\ prev = users
  /\ contract = TRUE
  /\ accepted = {}
  /\ calls = 0
  /\ sel = NoSel
  /\ flag \in BOOLEAN
  /\ conn = NoConn
  /\ store = {}
  /\ svc = Idle
  /\ trace = <<>>
  /\ mgr = NoMgr
  /\ InitRel
  /\ InitView
  /\ InitTenant
  /\ procs = [p \in RaceProcs |-> AcceptIdle]
  /\ hist = <<>>

NextAccept ==
  \/ \E p \in RaceProcs, cu \in Users : AcceptFind(p, RaceToken, cu)
  \/ \E p \in RaceProcs : AcceptDestroy(p)
  \/ \E p \in RaceProcs : AcceptPush(p)
  \/ \E p \in RaceProcs : AcceptFail(p)
  \/ \E p \in RaceProcs : RaceCommit(p)
  \/ \E p \in RaceProcs : RaceAbort(p)

SpecAccept == InitAccept /\ [][NextAccept]_vars

(* ------------------------- vocabulary of the claims ------------------- *)

\* The positions of the memberships for tenant t in a membership list.
TenantIdx(list, t) == {i \in 1..Len(list) : list[i].tenant = t}

\* The first membership for tenant t in a list that has one.
FirstFor(list, t) ==
  list[CHOOSE i \in TenantIdx(list, t) : \A j \in TenantIdx(list, t) : i <= j]

NoRepeats(s) == \A i, j \in 1..Len(s) : s[i] = s[j] => i = j

\* The status the derivation rule of the specification gives.
RuleStatus(oldStatus, roles) ==
  IF oldStatus = "invited" THEN "invited"
  ELSE IF roles = <<>> THEN "empty-permissions"
  ELSE "active"

UpdateDone == last.op = "updateRoles" /\ last.outcome = "ok"
UpdateCreated == last.op = "updateRoles" /\ TenantIdx(prev[last.user], last.tenant) = {}
AcceptDone == last.op = "acceptInvitation" /\ last.outcome = "ok"

\* The membership a completed updateRoles call has edited, before and after.
EditedBefore == FirstFor(prev[last.user], last.tenant)
EditedAfter == FirstFor(users[last.user], last.tenant)

\* The invitation a completed acceptInvitation call has looked up.
InvitationBefore ==
  LET h == CHOOSE u \in Users :
             \E i \in 1..Len(prev[u]) : prev[u][i].invitationToken = last.token
      i == CHOOSE i \in 1..Len(prev[h]) : prev[h][i].invitationToken = last.token
  IN  [holder |-> h, membership |-> prev[h][i]]

\* The current user was a member of the invitation's tenant before the call.
AcceptByMember ==
  AcceptDone /\ TenantIdx(prev[last.user], InvitationBefore.membership.tenant) # {}

\* The roles the current user held in the invitation's tenant before the call.
HeldBefore == FirstFor(prev[last.user], InvitationBefore.membership.tenant).roles

MergedRoles == SeqToSet(HeldBefore) \cup SeqToSet(InvitationBefore.membership.roles)

\* The membership a completed acceptInvitation call has pushed.
PushedByAccept == users[last.user][Len(users[last.user])]

(* -------------------------------- claims ------------------------------ *)

\* C1: after every completed updateRoles call the persisted status of the
\* edited membership is the derivation rule applied to the status persisted
\* immediately before the call (invited, for a membership the call itself
\* created) and the role list the call persisted; invited stays invited.
C1_StatusFollowsRule ==
  UpdateDone =>
    /\ TenantIdx(users[last.user], last.tenant) # {}
    /\ EditedAfter.status =
         RuleStatus(IF UpdateCreated THEN "invited" ELSE EditedBefore.status,
                    EditedAfter.roles)

\* C1 witness: roles were given to a membership that was invited, and it is
\* still invited.
C1_Witness ==
  /\ UpdateDone
  /\ ~UpdateCreated
  /\ EditedBefore.status = "invited"
  /\ EditedAfter.roles # <<>>

\* C2: selectStatus gives invited for the old status invited; otherwise
\* empty-permissions for an empty or absent role list; otherwise active.
C2_SelectStatusTable ==
  sel.result # "none" =>
    sel.result =
      IF sel.oldStatus = "invited" THEN "invited"
      ELSE IF sel.roles.absent \/ sel.roles.list = <<>> THEN "empty-permissions"
      ELSE "active"

\* C2 witness: selectStatus was applied to an absent role list with an old
\* status other than invited.
C2_Witness ==
  /\ sel.result # "none"
  /\ sel.roles.absent
  /\ sel.oldStatus = "active"

\* C3: when updateRoles is called for a user without a membership for the
\* tenant, the membership persisted at the end of the call carries an
\* invitation token and has status invited, whatever roles and mode.
C3_CreatedIsInvitedWithToken ==
  UpdateCreated =>
    /\ TenantIdx(users[last.user], last.tenant) # {}
    /\ EditedAfter.invitationToken # NoToken
    /\ EditedAfter.status = "invited"

\* C3 witness: updateRoles created a membership and gave it roles.
C3_Witness ==
  /\ UpdateCreated
  /\ UpdateDone
  /\ EditedAfter.roles # <<>>

\* C4: after acceptInvitation by a current user who already was a member of
\* the invitation's tenant, the pushed membership's status is the rule applied
\* to active and the merged roles: active whenever the merged set is non-empty.
C4_AcceptStatusOfMergedRoles ==
  AcceptByMember =>
    PushedByAccept.status =
      (IF MergedRoles = {} THEN "empty-permissions" ELSE "active")

\* C5: after acceptInvitation by a current user who already was a member of
\* the invitation's tenant, the role set of the current user's membership for
\* that tenant is exactly the union of the held and the invitation's roles,
\* with no role repeated.
C5_AcceptRolesAreUnion ==
  AcceptByMember =>
    \A i \in TenantIdx(users[last.user], InvitationBefore.membership.tenant) :
      /\ SeqToSet(users[last.user][i].roles) = MergedRoles
      /\ NoRepeats(users[last.user][i].roles)

\* C6: as long as create is only called for a user without a membership for
\* the tenant, every user has at most one membership per tenant.
C6_OneMembershipPerTenant ==
  contract =>
    \A u \in Users, t \in Tenants : Cardinality(TenantIdx(users[u], t)) <= 1

\* C7 as stated: a second acceptInvitation of the same token by the same
\* current user completes and leaves the user's memberships as the first left
\* them.
C7_SecondAcceptCompletes ==
  (last.op = "acceptInvitation" /\ last.repeat) =>
    (last.outcome = "ok" /\ users[last.user] = prev[last.user])

\* C7 amended: a second acceptInvitation of the same token by the same current
\* user fails and writes nothing, so every membership list, and with it the
\* role set the first acceptance produced, is unchanged.
C7_SecondAcceptFailsUnchanged ==
  (last.op = "acceptInvitation" /\ last.repeat) =>
    (last.outcome = "error" /\ users = prev)

\* C7 witness: the same user presented a token it had already accepted.
C7_Witness ==
  /\ last.op = "acceptInvitation"
  /\ last.repeat
  /\ TenantIdx(users[last.user], "t1") # {}

\* C8: after a completed acceptInvitation no membership of any user carries
\* the token, the pushed membership carries none, and the lookup by that token
\* finds nothing.
C8_TokenSingleUse ==
  AcceptDone =>
    /\ \A u \in Users : \A i \in 1..Len(users[u]) :
         users[u][i].invitationToken # last.token
    /\ PushedByAccept.invitationToken = NoToken
    /\ Holders(users, last.token) = {}

\* C8 witness: an invitation held by another user was accepted.
C8_Witness ==
  /\ AcceptDone
  /\ InvitationBefore.holder # last.user

\* C9: the role list a completed updateRoles persists is, for existing roles E
\* and given roles R: in add mode the union of E and R without repeats, in
\* removeListed mode the roles of E not in R, in replace mode exactly R.
C9_RolesByMode ==
  UpdateDone =>
    LET E == IF UpdateCreated THEN <<>> ELSE EditedBefore.roles
        R == IF last.roles.absent THEN <<>> ELSE last.roles.list
        N == EditedAfter.roles
        notInR(x) == x \notin SeqToSet(R)
    IN  /\ last.mode = "add" =>
             (SeqToSet(N) = SeqToSet(E) \cup SeqToSet(R) /\ NoRepeats(N))
        /\ last.mode = "removeListed" => N = SelectSeq(E, notInR)
        /\ last.mode = "replace" => N = R

\* C9 witness: add mode joined a new role to an existing one.
C9_Witness ==
  /\ UpdateDone
  /\ last.mode = "add"
  /\ ~UpdateCreated
  /\ EditedBefore.roles # <<>>
  /\ Len(EditedAfter.roles) > Len(EditedBefore.roles)

\* C10: no membership's persisted role list contains the same role twice.
C10_RolesHaveNoRepeats ==
  \A u \in Users : \A i \in 1..Len(users[u]) : NoRepeats(users[u][i].roles)

MembershipFields == {"tenant", "status", "roles", "invitationToken"}

\* C11 as stated: updateRoles returns the updated membership together with an
\* indication of whether this call created it.
C11_ReturnsCreationFlag ==
  UpdateDone =>
    /\ last.returned = EditedAfter
    /\ "isCreation" \in DOMAIN last.returned

\* C11 amended: updateRoles returns the updated membership, equal to the
\* persisted one, and nothing else; whether the call created the membership
\* only selects the action of the audit entry (create or update).
C11_ReturnsMembershipOnly ==
  UpdateDone =>
    /\ last.returned = EditedAfter
    /\ DOMAIN last.returned = MembershipFields
    /\ last.audit = <<IF UpdateCreated THEN "create" ELSE "update">>

\* C11 witness: a call that created the membership returned it with roles.
C11_Witness ==
  /\ UpdateDone
  /\ UpdateCreated
  /\ last.returned.roles # <<>>

\* The memberships of a list that are for another tenant than t, in order.
OtherTenants(list, t) ==
  LET other(m) == m.tenant # t IN SelectSeq(list, other)

\* C12: create appends to the user's list exactly one membership for the
\* tenant, with the given roles, no token, and status active for a non-empty
\* role list and empty-permissions for an empty or absent one; the user's
\* other memberships and all other users are unchanged.
C12_CreateAppendsOne ==
  last.op = "create" =>
    LET u == last.user
        given == IF last.roles.absent THEN <<>> ELSE last.roles.list
    IN  /\ last.outcome = "ok"
        /\ Len(users[u]) = Len(prev[u]) + 1
        /\ SubSeq(users[u], 1, Len(prev[u])) = prev[u]
        /\ users[u][Len(users[u])] =
             [tenant |-> last.tenant,
              status |-> IF given = <<>> THEN "empty-permissions" ELSE "active",
              roles |-> given,
              invitationToken |-> NoToken]
        /\ \A v \in Users \ {u} : users[v] = prev[v]

\* C12 witness: create for a user who already held a membership for another
\* tenant, while another user had a membership too.
C12_Witness ==
  /\ last.op = "create"
  /\ OtherTenants(prev[last.user], last.tenant) # <<>>
  /\ \E v \in Users \ {last.user} : prev[v] # <<>>

\* C13: after destroy the user has no membership for the tenant, the user's
\* memberships for other tenants and every other user's memberships are
\* unchanged, and without a membership for the tenant nothing changes and the
\* call completes.
C13_DestroyFrame ==
  last.op = "destroy" =>
    LET u == last.user
    IN  /\ last.outcome = "ok"
        /\ TenantIdx(users[u], last.tenant) = {}
        /\ users[u] = OtherTenants(prev[u], last.tenant)
        /\ \A v \in Users \ {u} : users[v] = prev[v]
        /\ TenantIdx(prev[u], last.tenant) = {} => users = prev

\* C13 witness: destroy removed a membership of a user who keeps one for
\* another tenant.
C13_Witness ==
  /\ last.op = "destroy"
  /\ TenantIdx(prev[last.user], last.tenant) # {}
  /\ users[last.user] # <<>>

\* C14: findByInvitationToken returns a membership whose token equals the
\* argument, with the user that owns it, when such a membership exists, and
\* null otherwise; never a membership with another token or with none.
C14_LookupExact ==
  last.op = "findByInvitationToken" =>
    /\ users = prev
    /\ IF \E u \in Users : \E i \in 1..Len(users[u]) :
            users[u][i].invitationToken = last.token
       THEN /\ last.returned.found
            /\ last.returned.membership.invitationToken = last.token
            /\ last.returned.membership.invitationToken # NoToken
            /\ \E i \in 1..Len(users[last.returned.user]) :
                 users[last.returned.user][i] = last.returned.membership
       ELSE last.returned = NotFound

\* C14 witness: the lookup found an invitation that is not the first
\* membership of its user.
C14_Witness ==
  /\ last.op = "findByInvitationToken"
  /\ last.returned.found
  /\ users[last.returned.user][1].invitationToken # last.token

\* C14 witness of the other case: the lookup of a token that no membership
\* carries, while invitations with other tokens exist.
C14_WitnessNull ==
  /\ last.op = "findByInvitationToken"
  /\ last.returned = NotFound
  /\ \E u \in Users : \E i \in 1..Len(users[u]) :
       users[u][i].invitationToken # NoToken

\* C17: commitTransaction and abortTransaction do nothing and do not fail
\* when the session is absent; when a session is present they commit,
\* respectively roll back, its writes, whatever the transactions flag is at
\* the time of the call.
C17_EndDecidedBySession ==
  mgr.fn \in {"commitTransaction", "abortTransaction"} =>
    /\ mgr.outcome = "ok"
    /\ IF ~mgr.arg THEN conn = mgr.conn /\ store = mgr.store
       ELSE IF mgr.fn = "commitTransaction"
       THEN /\ conn = [state |-> "committed", pending |-> {}]
            /\ store = mgr.store \cup mgr.conn.pending
       ELSE /\ conn = [state |-> "aborted", pending |-> {}]
            /\ store = mgr.store

\* C18: createSession returns no session and starts nothing on the connection
\* when the transactions flag is not set; when it is set it returns a session
\* on which a transaction has been started.
C18_CreateSessionByFlag ==
  mgr.fn = "createSession" =>
    IF ~mgr.flag THEN ~mgr.ret /\ conn = mgr.conn
    ELSE mgr.ret /\ conn = [state |-> "active", pending |-> {}]

\* C18 witness: createSession was called with the flag not set on a
\* connection whose earlier session had committed writes.
C18_Witness ==
  /\ mgr.fn = "createSession"
  /\ ~mgr.flag
  /\ conn.state = "committed"
  /\ store # {}

\* Positions of an event in the trace of the running operation.
At(event) == {i \in 1..Len(trace) : trace[i] = event}

\* C15: when a repository call of a service operation that opened a session
\* fails, abortTransaction is called before the error reaches the caller and
\* commitTransaction is not called after the failure.
C15_AbortBeforeErrorPropagates ==
  (svc.pc = "raised" /\ svc.session) =>
    \E f \in At("fail") :
      /\ \E a \in At("abortTransaction") : f < a /\ \A t \in At("throw") : a < t
      /\ \A c \in At("commitTransaction") : c < f

\* C16: every write of a service operation that opened a session is issued
\* with that session, so it is in the store only once committed and is gone
\* after an abort.
C16_WritesJoinTheSession ==
  svc.session =>
    /\ At("write@direct") = {}
    /\ conn.state = "active" => store = {}
    /\ conn.state = "aborted" => store = {}

\* Source s and target t agree on whether they are related.
Agree(ls, bs, s, t) == (s \in bs[t]) <=> (t \in ls[s])

\* C19: after refreshTwoWayRelationManyToMany for a source record, every
\* target's back-reference set contains a source's id exactly when that
\* source's field contains the target's id, given that this held for every
\* other source before the call.
C19_ManyToManyAgree ==
  ( /\ relLast.op = "manyToMany"
    /\ \A s \in RelSources \ {relLast.id}, t \in RelTargets :
         Agree(relPrev.links, relPrev.backRefs, s, t) )
  => \A s \in RelSources, t \in RelTargets : Agree(links, backRefs, s, t)

\* C19 witness: a sync that drops one target and adds another for a source,
\* while the other source keeps a target of its own.
C19_Witness ==
  /\ relLast.op = "manyToMany"
  /\ relPrev.links[relLast.id] \ relLast.field # {}
  /\ relLast.field \ relPrev.links[relLast.id] # {}
  /\ \E s \in RelSources \ {relLast.id} : links[s] # {}
  /\ \E t \in RelTargets : relPrev.backRefs[t] # backRefs[t]

\* C20: after refreshTwoWayRelationManyToOne for a source record R, a target's
\* back-reference is R.id exactly when the target is in R's field, targets
\* dropped from R's field have a null back-reference, no other source lists a
\* target that R lists, and no target is listed by two sources.
C20_ManyToOneExclusive ==
  relLast.op = "manyToOne" =>
    /\ links[relLast.id] = relLast.field
    /\ \A t \in RelTargets : (backRef[t] = relLast.id) <=> (t \in relLast.field)
    /\ \A t \in relPrev.links[relLast.id] \ relLast.field : backRef[t] = Null
    /\ \A s \in RelSources \ {relLast.id} : links[s] \cap relLast.field = {}
    /\ \A t \in RelTargets : Cardinality({s \in RelSources : t \in links[s]}) <= 1

\* C20 witness: R takes a target that another source listed and drops one of
\* its own.
C20_Witness ==
  /\ relLast.op = "manyToOne"
  /\ \E s \in RelSources \ {relLast.id} :
       relPrev.links[s] \cap relLast.field # {}
  /\ relPrev.links[relLast.id] \ relLast.field # {}

\* How often x occurs in an array.
Count(arr, x) == Cardinality({i \in 1..Len(arr) : arr[i] = x})

\* C21: after refreshTwoWayRelationOneToMany for a source record R, R.id
\* occurs exactly once in the back-reference array of the target R's field
\* names, also when the sync is repeated, and in no other target's array; the
\* other ids of every array are unchanged.
C21_OneToManyOnce ==
  relLast.op = "oneToMany" =>
    \A t \in RelTargets :
      /\ Count(backArr[t], relLast.id) = (IF t = relLast.ref THEN 1 ELSE 0)
      /\ PullId(backArr[t], relLast.id) = PullId(relPrev.backArr[t], relLast.id)

\* C21 witness: the sync is repeated for a record whose id the named target
\* already holds, next to the id of another source.
C21_Witness ==
  /\ relLast.op = "oneToMany"
  /\ relLast.ref # Null
  /\ Includes(relPrev.backArr[relLast.ref], relLast.id)
  /\ Len(backArr[relLast.ref]) = 2

\* C21 witness of a move: the record's id leaves the array of one target and
\* enters the array of another.
C21_WitnessMoved ==
  /\ relLast.op = "oneToMany"
  /\ relLast.ref # Null
  /\ \E t \in RelTargets \ {relLast.ref} : Includes(relPrev.backArr[t], relLast.id)

\* C22: after destroyRelationToOne(id) no target record has the field equal
\* to id, the field being null where it was id; after destroyRelationToMany(id)
\* no target's array contains id; both leave every other reference as it was.
C22_DestroyClearsOnlyThatId ==
  /\ relLast.op = "destroyToOne" =>
       \A t \in RelTargets :
         /\ backRef[t] # relLast.id
         /\ backRef[t] = (IF relPrev.backRef[t] = relLast.id THEN Null
                          ELSE relPrev.backRef[t])
         /\ backArr[t] = relPrev.backArr[t]
  /\ relLast.op = "destroyToMany" =>
       \A t \in RelTargets :
         /\ ~Includes(backArr[t], relLast.id)
         /\ backArr[t] = PullId(relPrev.backArr[t], relLast.id)
         /\ backRef[t] = relPrev.backRef[t]

\* C22 witness: a single back-reference to the deleted id is cleared while a
\* reference to the other source stays.
C22_Witness ==
  /\ relLast.op = "destroyToOne"
  /\ \E t \in RelTargets : relPrev.backRef[t] = relLast.id
  /\ \E t \in RelTargets : backRef[t] \notin {Null, relLast.id}

\* C22 witness for arrays: the deleted id leaves an array that keeps the id
\* of the other source.
C22_WitnessToMany ==
  /\ relLast.op = "destroyToMany"
  /\ \E t \in RelTargets :
       /\ Includes(relPrev.backArr[t], relLast.id)
       /\ Len(backArr[t]) = 1

\* create or update of a product, customer or order has raised to its caller.
WriteRaised ==
  /\ svc.pc = "raised"
  /\ svc.entity \in {"product", "customer", "order"}
  /\ svc.op \in {"create", "update"}

\* The first field of a key pattern that is not the tenant field.
FirstConflicting(kp) ==
  kp[CHOOSE i \in 1..Len(kp) :
       /\ kp[i] # TenantField
       /\ \A j \in 1..(i - 1) : kp[j] = TenantField]

C24_OtherErrorsUnchanged ==
  /\ (WriteRaised /\ svc.cause.code # DuplicateKey) =>
       /\ svc.error = svc.cause
       /\ \E a \in At("abortTransaction") : \A t \in At("throw") : a < t
  /\ svc.pc = "returned" => (At("fail") = {} /\ svc.cause = NoError)
  /\ At("fail") # {} => At("return") = {}

\* C24 witness: a create raised a store error that is not a duplicate key.
C24_Witness ==
  /\ WriteRaised
  /\ svc.op = "create"
  /\ svc.cause = StorageError(WriteConflict, <<>>)
  /\ svc.writes > 0

\* The lookups whose rows are tenant-scoped views.
Scoped ==
  \/ view.q.op \in {"mapUserForTenant", "findAndCountAll"}
  \/ view.q.op = "findById" /\ ~view.q.bypass

RedactedFields == {"id", "email", "roles", "status"}

\* C25: the tenant-scoped view of a user whose membership in the viewing
\* tenant is invited or empty-permissions has the fields id, email, roles and
\* status and no other; the view of a user whose membership there is active
\* has the profile too, with the roles and status of that tenant.
C25_ViewByStatus ==
  Scoped =>
    \A i \in 1..Len(view.rows) :
      LET v == view.rows[i]
          user == accounts[v.id]
      IN  MemberOf(user, view.q.tenant) =>
            LET m == FirstFor(user.tenants, view.q.tenant)
            IN  /\ v.email = user.email
                /\ v.roles = m.roles
                /\ v.status = m.status
                /\ IF m.status = "active"
                   THEN "fullName" \in DOMAIN v /\ v.fullName = user.fullName
                   ELSE DOMAIN v = RedactedFields

\* C25 witness: a listing with the full view of an active member and the
\* redacted view of an invited one.
C25_Witness ==
  /\ view.q.op = "findAndCountAll"
  /\ Len(view.rows) = 2
  /\ view.rows[1].status = "invited"
  /\ view.rows[2].status = "active"

\* The user has a membership in the tenant and it is not an active one.
NotActiveIn(user, tenant) ==
  /\ MemberOf(user, tenant)
  /\ FirstFor(user.tenants, tenant).status # "active"

\* The rows of a result that are about user u.
RowsOf(rows, u) == SelectSeq(rows, LAMBDA v : v.id = u)

\* The documents with the profile of user u replaced.
WithName(db, u, name) == [db EXCEPT ![u].fullName = name]

\* C26: findById, findByEmail, findAndCountAll and findAllAutocomplete all
\* redact: what they return for a user whose membership in the current tenant
\* is not active is the same whatever that user's profile fields are.
C26_RedactedByEveryLookup ==
  ( \/ view.q.op \in {"findByEmail", "findAndCountAll", "findAllAutocomplete"}
    \/ view.q.op = "findById" /\ ~view.q.bypass )
  => \A u \in Users :
       NotActiveIn(accounts[u], view.q.tenant) =>
         \A name \in Names :
           RowsOf(Lookup(WithName(accounts, u, name), view.q).rows, u)
             = RowsOf(view.rows, u)

\* C27: findById without bypassPermissionValidation raises not-found for a
\* user with no membership in the viewing tenant, and no lookup returns a
\* tenant-scoped view of a user who has no membership in the tenant.
C27_NonMembersInvisible ==
  /\ ( /\ view.q.op = "findById"
       /\ ~view.q.bypass
       /\ view.q.id \in Users
       /\ ~MemberOf(accounts[view.q.id], view.q.tenant) )
     => (view.outcome = "Error404" /\ view.rows = <<>>)
  /\ ( \/ view.q.op \in {"findAndCountAll", "findAllAutocomplete"}
       \/ view.q.op = "findById" /\ ~view.q.bypass )
     => \A i \in 1..Len(view.rows) :
          MemberOf(accounts[view.rows[i].id], view.q.tenant)

\* C27 witness: findById for a user whose only memberships are in another
\* tenant.
C27_Witness ==
  /\ view.q.op = "findById"
  /\ ~view.q.bypass
  /\ view.q.id \in Users
  /\ Len(accounts[view.q.id].tenants) = 2
  /\ ~MemberOf(accounts[view.q.id], view.q.tenant)
  /\ view.outcome = "Error404"

\* The URL is in use by a tenant of db.
UrlInUse(db, url) == \E t \in TenantIds : db[t].exists /\ db[t].url = url

\* C28: TenantRepository.create fails with the URL-collision error and
\* creates no tenant when the URL is www or the URL of an existing tenant;
\* with no URL supplied it succeeds and the new tenant's generated URL
\* differs from the URL of every tenant that existed.
C28_CreateChecksUrl ==
  tlast.op = "create" =>
    /\ (tlast.url \in forbiddenTenantUrls \/ UrlInUse(tprev.tenantDb, tlast.url))
         => (tlast.outcome = "Error400" /\ tenantDb = tprev.tenantDb)
    /\ tlast.url = NoUrl =>
         /\ tlast.outcome = "ok"
         /\ ~tprev.tenantDb[tlast.id].exists
         /\ tenantDb[tlast.id].exists
         /\ ~UrlInUse(tprev.tenantDb, tenantDb[tlast.id].url)
         /\ \A t \in TenantIds \ {tlast.id} : tenantDb[t] = tprev.tenantDb[t]

\* C28 witness: a create with the reserved URL, refused although no tenant
\* uses it and an id is free.
C28_Witness ==
  /\ tlast.op = "create"
  /\ tlast.url = "www"
  /\ ~UrlInUse(tprev.tenantDb, "www")
  /\ tlast.outcome = "Error400"

\* C28 witness of a generated URL: a create without a URL after an earlier
\* one.
C28_WitnessGenerated ==
  /\ tlast.op = "create"
  /\ tlast.url = NoUrl
  /\ tlast.outcome = "ok"
  /\ generated = 2

\* C29: after TenantRepository.destroy(id) by a member of the tenant the
\* tenant does not exist, no user has a membership for it, and there is no
\* customer, product, order or settings record with that tenant.
C29_DestroyCascades ==
  (tlast.op = "destroy" /\ tlast.outcome = "ok") =>
    /\ ~tenantDb[tlast.id].exists
    /\ \A u \in Users : TenantIdx(users[u], tlast.id) = {}
    /\ \A entity \in TenantEntities : records[<<entity, tlast.id>>] = 0

\* C29 witness: the tenant destroyed had both users as members and two
\* orders.
C29_Witness ==
  /\ tlast.op = "destroy"
  /\ tlast.outcome = "ok"
  /\ \A u \in Users : TenantIdx(prev[u], tlast.id) # {}
  /\ tprev.records[<<"order", tlast.id>>] = 2

\* C30: every call of create, destroy, updateRoles and acceptInvitation of
\* the memberships, and of create, update and destroy of the tenants, that
\* changes the store writes exactly one audit-log entry.
C30_OneAuditEntryPerCall ==
  /\ (last.op \in {"create", "destroy", "updateRoles", "acceptInvitation"}
        /\ last.outcome = "ok") => Len(last.audit) = 1
  /\ (tlast.op \in {"create", "update", "destroy"} /\ tlast.outcome = "ok")
        => Len(tlast.audit) = 1

\* C39: acceptInvitation with a token that no membership carries fails and
\* writes nothing: every user's membership list is as it was and no audit
\* entry is written, whether or not the current user has memberships.
C39_UnknownTokenWritesNothing ==
  (last.op = "acceptInvitation" /\ Holders(prev, last.token) = {}) =>
    /\ last.outcome = "error"
    /\ users = prev
    /\ last.audit = <<>>

\* C39 witness: a current user who has a membership presented a token that
\* no membership carries.
C39_Witness ==
  /\ last.op = "acceptInvitation"
  /\ Holders(prev, last.token) = {}
  /\ prev[last.user] # <<>>
  /\ last.outcome = "error"

\* C39 witness of the other case: the current user has no membership.
C39_WitnessNoMemberships ==
  /\ last.op = "acceptInvitation"
  /\ Holders(prev, last.token) = {}
  /\ prev[last.user] = <<>>
  /\ \E u \in Users : prev[u] # <<>>

\* C36: every status that create, updateRoles or acceptInvitation persist
\* on a membership is a value of the status enumeration the membership
\* schema declares.
C36_PersistedStatusInSchemaEnum ==
  (last.op \in {"create", "updateRoles", "acceptInvitation"}) =>
    \A u \in Users : \A i \in 1..Len(users[u]) :
      users[u][i].status \in SchemaStatuses

\* The user has a membership in the tenant that holds the role.
RoleIn(user, tenant, role) ==
  \E i \in TenantIdx(user.tenants, tenant) : Includes(user.tenants[i].roles, role)

\* The user has a membership in the tenant with the status.
StatusIn(user, tenant, status) ==
  \E i \in TenantIdx(user.tenants, tenant) : user.tenants[i].status = status

\* C37: findAndCountAll with a role or status filter returns, and counts,
\* only users whose membership in the current tenant has that role,
\* respectively that status; never a user who has it only in a membership of
\* another tenant.
C37_FilterByCurrentTenant ==
  view.q.op = "findAndCountAll" =>
    /\ view.count = Len(view.rows)
    /\ \A i \in 1..Len(view.rows) :
         LET user == accounts[view.rows[i].id]
         IN  /\ view.q.role # "any" => RoleIn(user, view.q.tenant, view.q.role)
             /\ view.q.status # "any" => StatusIn(user, view.q.tenant, view.q.status)

\* C35: TenantRepository.destroy(id) deletes no user record, leaves every
\* user's memberships for other tenants as they were, and leaves the tenant,
\* customer, product, order and settings records of other tenants as they
\* were; called by a user with no membership for the tenant it raises
\* not-found and changes nothing.
C35_TenantDestroyFrame ==
  tlast.op = "destroy" =>
    /\ DOMAIN users = DOMAIN prev
    /\ \A u \in Users :
         OtherTenants(users[u], tlast.id) = OtherTenants(prev[u], tlast.id)
    /\ \A t \in TenantIds \ {tlast.id} :
         /\ tenantDb[t] = tprev.tenantDb[t]
         /\ \A entity \in TenantEntities :
              records[<<entity, t>>] = tprev.records[<<entity, t>>]
    /\ TenantIdx(prev[tlast.user], tlast.id) = {} =>
         /\ tlast.outcome = "Error404"
         /\ users = prev
         /\ tenantDb = tprev.tenantDb
         /\ records = tprev.records
         /\ tlast.audit = <<>>

\* C35 witness: the tenant destroyed had a member who is a member of another
\* tenant too, and that other tenant has records.
C35_Witness ==
  /\ tlast.op = "destroy"
  /\ tlast.outcome = "ok"
  /\ \E u \in Users :
       /\ TenantIdx(prev[u], tlast.id) # {}
       /\ \E t \in TenantIds \ {tlast.id} :
            /\ TenantIdx(users[u], t) # {}
            /\ tenantDb[t].exists
            /\ records[<<"order", t>>] > 0

\* C35 witness of the refusal: a user who is not a member of an existing
\* tenant called destroy for it.
C35_WitnessNotFound ==
  /\ tlast.op = "destroy"
  /\ tlast.outcome = "Error404"
  /\ tprev.tenantDb[tlast.id].exists
  /\ prev[tlast.user] # <<>>

\* C40: a tenant owns at most one settings record: in every state reached by
\* any sequence and interleaving of findOrCreateDefault calls there is at
\* most one settings record of each tenant, and a call made when one exists
\* returns it without creating another.
C40_OneSettingsPerTenant ==
  /\ \A t \in TenantIds : records[<<"settings", t>>] <= 1
  /\ \A p \in RaceProcs :
       (procs[p].op = "findOrCreateDefault" /\ procs[p].first) =>
         (procs[p].pc = "done" /\ ~procs[p].created)

\* C34: in every state reached by any interleaving of concurrent
\* TenantRepository.create and TenantRepository.update calls, no two tenants
\* have the same URL and no tenant has the reserved URL www.
C34_UrlsUniqueUnderInterleaving ==
  /\ \A t1, t2 \in TenantIds :
       (tenantDb[t1].exists /\ tenantDb[t2].exists /\ t1 # t2)
         => tenantDb[t1].url # tenantDb[t2].url
  /\ \A t \in TenantIds : tenantDb[t].exists => tenantDb[t].url \notin forbiddenTenantUrls

\* Both concurrent calls were updateRoles for user u and have ended.
BothUpdated(u) ==
  \A p \in RaceProcs :
    procs[p].op = "updateRoles" /\ procs[p].pc = "done" /\ procs[p].user = u

\* The positions in the order of applied writes of the final patches on the
\* document of user u.
PatchesOn(u) ==
  {i \in 1..Len(hist) : hist[i].write = "set" /\ hist[i].user = u}

\* The call whose final patch on the document of user u was applied last.
LastPatcher(u) ==
  hist[CHOOSE i \in PatchesOn(u) : \A j \in PatchesOn(u) : j <= i].p

\* The roles a call computes from the membership it read.
ComputedRoles(p) ==
  newRolesOf(procs[p].tenantUser.roles, procs[p].roles, procs[p].mode)

\* C33: when two updateRoles calls on the same existing membership run in
\* different sessions and interleave, the role set and status persisted in
\* the end are exactly those computed, from its own earlier read, by the call
\* whose final patch was applied last; a role the other call added in add mode
\* can be absent from the final role set.
C33_LastPatchWins ==
  \A u \in Users :
    ( /\ BothUpdated(u)
      /\ \A p \in RaceProcs : procs[p].found
      /\ PatchesOn(u) # {} )
    => LET p == LastPatcher(u)
           m == FirstFor(users[u], RaceTenant)
       IN  /\ m.roles = ComputedRoles(p)
           /\ m.status = RuleStatus(procs[p].tenantUser.status, ComputedRoles(p))

\* C33 witness: two calls in add mode on the same existing membership have
\* both completed, and a role that the one added is not in the final role
\* set, which the other computed from a read made before that role was
\* written.
C33_Witness ==
  \E u \in Users :
    /\ BothUpdated(u)
    /\ \A p \in RaceProcs :
         procs[p].found /\ procs[p].mode = "add" /\ procs[p].outcome = "ok"
    /\ PatchesOn(u) # {}
    /\ \E q \in RaceProcs \ {LastPatcher(u)} :
         \E i \in 1..Len(procs[q].roles.list) :
           ~Includes(FirstFor(users[u], RaceTenant).roles, procs[q].roles.list[i])

\* C38: when two updateRoles calls for the same user and tenant run
\* concurrently while the user has no membership for the tenant, the user
\* ends with exactly one membership for the tenant, and at most one
\* invitation token is issued for it.
C38_OneMembershipFromTwoCalls ==
  \A u \in Users :
    ( /\ BothUpdated(u)
      /\ \A p \in RaceProcs : procs[p].isCreation )
    => /\ Cardinality(TenantIdx(users[u], RaceTenant)) = 1
       /\ Cardinality({i \in TenantIdx(users[u], RaceTenant) :
                         users[u][i].invitationToken # NoToken}) <= 1

\* The memberships for tenant t in a membership list.
ForTenant(list, t) ==
  LET same(m) == m.tenant = t IN SelectSeq(list, same)

\* The write named w of call p has reached the store.
Applied(p, w) == \E i \in 1..Len(hist) : hist[i].p = p /\ hist[i].write = w

\* The store holds the destroy of call p without its push: the invitation is
\* gone and the current user of the call has no accepted membership for the
\* tenant, only what it had for it before.
Stranded(p) ==
  /\ procs[p].op = "acceptInvitation"
  /\ Applied(p, "pull")
  /\ ~Applied(p, "push")
  /\ Holders(users, procs[p].token) = {}
  /\ ForTenant(users[procs[p].user], procs[p].invitation.tenant) =
       IF procs[p].user = procs[p].holder THEN <<>>
       ELSE ForTenant(procs[p].snap[procs[p].user], procs[p].invitation.tenant)

\* C32: with both writes of acceptInvitation in one session and transactions
\* enabled, no state is reachable in which the invitation membership is gone
\* and the current user has no accepted membership for the tenant; with
\* transactions disabled a failure after the destroy and before the push
\* leaves such a state.
C32_AcceptAtomicInOneSession ==
  flag => \A p \in RaceProcs : ~Stranded(p)

\* C32 witness: with transactions disabled a call has failed between its
\* destroy and its push, and the invitation is gone while the current user
\* has no membership for the tenant.
C32_Witness ==
  /\ ~flag
  /\ \E p \in RaceProcs :
       /\ Stranded(p)
       /\ procs[p].pc = "done"
       /\ procs[p].outcome = "Error"
       /\ ForTenant(users[procs[p].user], RaceTenant) = <<>>

\* C32 witness with transactions enabled: a call has failed between its
\* destroy and its push and was aborted, and the invitation is where it was.
C32_WitnessAborted ==
  /\ flag
  /\ \E p \in RaceProcs :
       /\ procs[p].op = "acceptInvitation"
       /\ procs[p].pc = "done"
       /\ procs[p].outcome = "Error"
       /\ procs[p].view[procs[p].holder] # procs[p].snap[procs[p].holder]
       /\ users = procs[p].snap

\* The writes the running service operation has issued.
Issued == 1..svc.writes

\* C31: with transactions enabled the writes of one service operation are
\* all or nothing: when a step has failed (the k-th destroy of destroyAll,
\* the second write of a repository call) the store is, after the abort, as
\* it was before the operation began, and at no time does the store hold
\* only a part of the writes for another session to read.
C31_AllOrNothing ==
  (flag /\ svc.op # "idle") =>
    /\ svc.pc = "raised" => store = {}
    /\ \/ store = {}
       \/ svc.pc = "returned" /\ store = Issued

====
